---------------------------- MODULE Spec2Model ----------------------------
(***************************************************************************)
(* Node material: the block graph, the build pass (NodeMaterial.build),    *)
(* serialization (serialize / parseSerializedObject) and the per-submesh   *)
(* specialization layer (CoreNodeMaterial.isReadyForSubMesh).              *)
(*                                                                         *)
(* NodeMaterial is src/unnamed/part_000; CoreNodeMaterial is               *)
(* src/packages/dev/core/src/Materials/Node/coreNodeMaterial.ts.           *)
(* NodeMaterialBlock, NodeMaterialBuildState, the shared build data,       *)
(* MaterialDefines and PushMaterial are not part of the sources at hand;   *)
(* what the model needs of them follows the specification text.            *)
(***************************************************************************)
EXTENDS Integers, Sequences, FiniteSets, TLC

(***************************************************************************)
(* Bounds of the model.                                                    *)
(***************************************************************************)
\* number of build() calls in one behaviour
MaxBuilds == 2
\* number of serialize() calls and of parseSerializedObject() calls in one behaviour
MaxSerializes == 1
MaxParses == 1
\* number of isReadyForSubMesh() calls in one behaviour
MaxChecks == 3
\* number of changes of the mesh and the scene between the checks
MaxChanges == 1
\* number of frames rendered (the scene's render id)
MaxFrames == 2

(***************************************************************************)
(* Values.                                                                 *)
(***************************************************************************)
\* a stamp that was never written (a field left undefined by the constructor)
Undefined == -2
\* the identity of no object, and a reference that holds no object
Null == 0
NoObject == [oid |-> Null]
IsNull(x) == x.oid = Null
\* an input with no connectedPoint
NoLink == [b |-> 0, o |-> 0]

Range(s) == {s[i] : i \in 1..Len(s)}
IndexOf(s, x) == IF \E i \in 1..Len(s) : s[i] = x
                 THEN CHOOSE i \in 1..Len(s) : s[i] = x /\ \A j \in 1..(i - 1) : s[j] # x
                 ELSE 0
NoDup(s) == \A i, j \in 1..Len(s) : s[i] = s[j] => i = j
RECURSIVE Count(_, _)
Count(s, x) == IF s = <<>> THEN 0 ELSE (IF Head(s) = x THEN 1 ELSE 0) + Count(Tail(s), x)

(***************************************************************************)
(* Block kinds.  A kind stands for a block class: its class name, target   *)
(* affinity, ports and the flags the graph walks read.                     *)
(***************************************************************************)
KindTarget(k) ==
    CASE k = "VertexOutputBlock" -> "Vertex"
      [] k = "FragmentOutputBlock" -> "Fragment"
      [] k = "TransformBlock" -> "Vertex"
      [] k = "ParticleRampGradientBlock" -> "Fragment"
      [] k = "TextureBlock" -> "VertexAndFragment"
      [] k = "InputBlock" -> "Vertex"
      [] k = "MorphTargetsBlock" -> "Vertex"
      [] OTHER -> "Neutral"

\* input port names, in declaration order
KindInputs(k) ==
    CASE k = "VertexOutputBlock" -> <<"vector">>
      [] k = "FragmentOutputBlock" -> <<"rgba", "rgb">>
      [] k = "TransformBlock" -> <<"vector">>
      [] k = "TextureBlock" -> <<"uv">>
      [] k = "ParticleRampGradientBlock" -> <<"color">>
      [] k = "NodeMaterialTeleportInBlock" -> <<"input">>
      [] k = "MorphTargetsBlock" -> <<"position", "normal", "tangent", "uv">>
      [] OTHER -> <<>>

\* output port names, in declaration order
KindOutputs(k) ==
    CASE k = "VertexOutputBlock" -> <<>>
      [] k = "FragmentOutputBlock" -> <<>>
      [] k = "TextureBlock" -> <<"rgba", "rgb">>
      [] k = "NodeMaterialTeleportInBlock" -> <<>>
      [] k = "MorphTargetsBlock" -> <<"positionOutput", "normalOutput", "tangentOutput", "uvOutput">>
      [] OTHER -> <<"output">>

\* an input that may stay unconnected without a build error
KindInputIsOptional(k, i) == k = "FragmentOutputBlock"

\* a class that may appear once per material
KindIsUnique(k) == k = "ParticleRampGradientBlock"
\* a class whose blocks register as blocking blocks (isReady waits for a resource)
KindIsBlocking(k) == k = "TextureBlock"
KindIsInput(k) == k = "InputBlock"
\* a class whose blocks register as bindable blocks (bound when the draw must rebind)
KindIsBindable(k) == k \in {"TextureBlock", "MorphTargetsBlock"}
\* a class whose blocks register as forced bindable blocks (bound on every draw)
KindIsForcedBindable(k) == k = "ForcedBindableBlock"
\* a class whose blocks prepare defines and splice repeatable content into the stage text
KindIsRepeatable(k) == k = "MorphTargetsBlock"
KindIsTeleportOut(k) == k = "NodeMaterialTeleportOutBlock"
KindIsTeleportIn(k) == k = "NodeMaterialTeleportInBlock"
KindIsFinalMerger(k) == k \in {"VertexOutputBlock", "FragmentOutputBlock"}

\* a block as its constructor leaves it
NewBlock(k, uid) ==
    [kind |-> k, target |-> KindTarget(k), uid |-> uid, name |-> k,
     isAttribute |-> KindIsInput(k),
     inputs |-> [i \in 1..Len(KindInputs(k)) |-> NoLink],
     entryPoint |-> 0, tempEntryPointUniqueId |-> Null,
     buildId |-> Undefined, prepId |-> Undefined, anchor |-> Undefined,
     outNames |-> [i \in 1..Len(KindOutputs(k)) |-> 0]]

VARIABLES
    heap,                 \* the block objects: heap[b] is block b
    vertexOutputNodes,    \* _vertexOutputNodes
    fragmentOutputNodes,  \* _fragmentOutputNodes
    attachedBlocks,       \* attachedBlocks
    disposed,             \* the blocks dispose() was called on
    mode,                 \* _mode
    buildId,              \* _buildId
    BuildIdGenerator,     \* NodeMaterial._BuildIdGenerator
    buildWasSuccessful,   \* _buildWasSuccessful
    sharedData,           \* _sharedData (NoObject or the object)
    vertexState,          \* _vertexCompilationState (NoObject or the object)
    fragmentState,        \* _fragmentCompilationState (NoObject or the object)
    nextOid,              \* identity of the next allocated state object
    nextUid,              \* UniqueIdGenerator of the blocks
    thrown,               \* what the last call threw ("none" when it returned)
    lastOp,               \* the last call made on the material
    lastPass,             \* what the last build() observed (see Build)
    serialized,           \* the last object returned by serialize() (NoObject before)
    idMap,                \* parseSerializedObject's map: serialized id -> block
    lastParse,            \* what the last parseSerializedObject() did, in order
    builds, serializes, parses,  \* counters for the bounds
    mesh,                 \* the mesh and the scene as the checks read them
    defines,              \* subMesh.materialDefines (NoObject or the object)
    effect,               \* subMesh.effect (Null or an effect of the engine)
    effects,              \* the effects the engine created: key and readiness
    drawWrapper,          \* subMesh._drawWrapper: the two _wasPreviously* fields
    isFrozen,             \* Material.isFrozen
    allowShaderHotSwapping,  \* Material.allowShaderHotSwapping
    lastCheck, prevCheck, \* what the last two isReadyForSubMesh() calls observed
    since,                \* the calls and changes since the last check
    checks, changes,      \* counters for the bounds
    activeEffect,         \* _activeEffect (Null or an effect of the engine)
    lastBind,             \* the calls the last bindForSubMesh() made, in order
    binds,                \* counter for the bound
    otherSubMesh,         \* a submesh of the scene that draws with another material
    wrapper,              \* the post process, procedural texture or particle effect
                          \* created from the material, with what its callback closes over
    ShadersStore,         \* Effect.ShadersStore: the registered entries
    lastApply,            \* what the last callback of the wrapper did
    peers,                \* the materials this one was cloned from, as clone() left them
    optimizers,           \* _optimizers
    loader                \* the shader language of the material and the loads of the
                          \* includes of its blocks: flags, pending calls, notifications

graphVars == <<heap, vertexOutputNodes, fragmentOutputNodes, attachedBlocks, disposed, mode>>
buildVars == <<buildId, BuildIdGenerator, buildWasSuccessful, sharedData, vertexState,
               fragmentState, nextOid, lastPass, builds>>
serialVars == <<serialized, idMap, lastParse, serializes, parses, nextUid>>
envVars == <<mesh, isFrozen, allowShaderHotSwapping, changes>>
readyVars == <<defines, effect, effects, drawWrapper, lastCheck, prevCheck, checks>>
bindVars == <<activeEffect, lastBind, binds>>
wrapVars == <<wrapper, ShadersStore, lastApply>>
\* what the clients of the material hold
clientVars == <<bindVars, otherSubMesh, wrapVars, peers, optimizers, loader>>

vars == <<heap, vertexOutputNodes, fragmentOutputNodes, attachedBlocks, disposed, mode,
          buildId,
          BuildIdGenerator, buildWasSuccessful, sharedData, vertexState, fragmentState,
          nextOid, nextUid, thrown, lastOp, lastPass, serialized, idMap, lastParse, builds,
          serializes, parses, mesh, defines, effect, effects, drawWrapper, isFrozen,
          allowShaderHotSwapping, lastCheck, prevCheck, since, checks, changes,
          activeEffect, lastBind, binds, otherSubMesh, wrapper, ShadersStore, lastApply,
          peers, optimizers, loader>>

(***************************************************************************)
(* Objects allocated by build().                                           *)
(***************************************************************************)
\* new NodeMaterialBuildState(), with target and sharedData set
NewBuildState(oid, target, sharedOid) ==
    [oid |-> oid, target |-> target, sharedData |-> sharedOid,
     compilationString |-> <<>>, builtCompilationString |-> <<>>,
     uniforms |-> <<>>, samplers |-> <<>>, attributes |-> <<>>,
     repeatable |-> <<>>, anchorIndex |-> 0,
     finalized |-> FALSE]

\* new NodeMaterialBuildStateSharedData(), with buildId set
NewSharedData(oid, id) ==
    [oid |-> oid, buildId |-> id, errors |-> <<>>, variableNames |-> 0,
     blockingBlocks |-> <<>>, inputBlocks |-> <<>>, bindableBlocks |-> <<>>,
     forcedBindableBlocks |-> <<>>, blocksWithDefines |-> <<>>,
     repeatableContentBlocks |-> <<>>]

\* the locals of one build() call, as the properties observe them
NoPass ==
    [stage |-> "none", vertexNodes |-> <<>>, fragmentNodes |-> <<>>,
     inits |-> <<>>, resets |-> <<>>, passId |-> Undefined, updateBuildId |-> FALSE,
     autoConfigure |-> FALSE, notified |-> FALSE, optimized |-> <<>>, log |-> <<>>]

(***************************************************************************)
(* The initialization walk.  The walk threads a context c through the      *)
(* recursion: the heap, attachedBlocks, the two lists of nodes to build    *)
(* (mine: the list of the stage walked, other: the list of the other       *)
(* stage), the exception under way (err) and the trace of initialize()     *)
(* calls.  d is the call depth left: a walk deeper than any acyclic path   *)
(* of the heap never returns (the call stack overflows).                   *)
(***************************************************************************)
MaxDepth(h) == Len(h) + 1

\* _processInitializeOnLink's test: the block also belongs to the other stage
GoesToOtherBuildState(block, stateTarget, id) ==
    \/ block.target = "VertexAndFragment"
    \/ stateTarget = "Fragment" /\ block.target = "Vertex" /\ block.prepId # id

\* _initializeBlock's uniqueness test against the blocks already attached
UniqueClash(h, attached, node) ==
    /\ KindIsUnique(h[node].kind)
    /\ \E other \in Range(attached) : h[other].kind = h[node].kind

\* every node taken for one that is not tracked yet
NeverAttached(attached, node) == TRUE

\* _initializeBlock's test that the node is not tracked yet
NotAttached(attached, node) == IndexOf(attached, node) = 0

\* a walk that also follows the link of a block to itself
FollowsSelfLinks(h, node, i) == h[node].inputs[i].b # 0

\* the producers _initializeBlock, _resetDualBlocks and _gatherBlocks follow from input i
FollowsInput(h, node, i) ==
    h[node].inputs[i].b # 0 /\ h[node].inputs[i].b # node

\* a walk that stops at a teleport-out
NeverFollowsTeleport(h, node) == FALSE

\* the entry point the walks follow from a teleport-out
FollowsTeleport(h, node) ==
    KindIsTeleportOut(h[node].kind) /\ h[node].entryPoint # 0

\* _processInitializeOnLink's push on nodesToProcessForOtherBuildState
pushForOtherBuildState(c, block, stateTarget) ==
    IF GoesToOtherBuildState(c.heap[block], stateTarget, buildId)
    THEN [c EXCEPT !.other = Append(@, block)]
    ELSE c

\* _initializeBlock: node.initialize(state), then node._preparationId = this._buildId
stampPreparation(c, node, stateTarget) ==
    [c EXCEPT !.heap[node].prepId = buildId,
              !.inits = Append(@, [node |-> node, stage |-> stateTarget])]

\* _initializeBlock: the node joins attachedBlocks, unless it is there or its class
\* is unique and already there
attachBlock(c, node) ==
    IF ~NotAttached(c.attached, node) THEN c
    ELSE IF UniqueClash(c.heap, c.attached, node) THEN [c EXCEPT !.err = "unique"]
    ELSE [c EXCEPT !.attached = Append(@, node)]

\* _initializeBlock's last loop: output.associatedVariableName = ""
clearOutputNames(c, node) ==
    IF c.err # "none" THEN c
    ELSE [c EXCEPT !.heap[node].outNames = [i \in DOMAIN @ |-> 0]]

RECURSIVE initializeBlock(_, _, _, _)
RECURSIVE initializeInputs(_, _, _, _, _)

processInitializeOnLink(c, block, stateTarget, d) ==
    initializeBlock(pushForOtherBuildState(c, block, stateTarget), block, stateTarget, d)

\* _initializeBlock's loop over node.inputs, from input i on
initializeInputs(c, node, i, stateTarget, d) ==
    IF c.err # "none" \/ i > Len(c.heap[node].inputs) THEN c
    ELSE initializeInputs(
             IF FollowsInput(c.heap, node, i)
             THEN processInitializeOnLink(c, c.heap[node].inputs[i].b, stateTarget, d - 1)
             ELSE c,
             node, i + 1, stateTarget, d)

\* _initializeBlock's teleportation step
initializeTeleport(c, node, stateTarget, d) ==
    IF c.err = "none" /\ FollowsTeleport(c.heap, node)
    THEN processInitializeOnLink(c, c.heap[node].entryPoint, stateTarget, d - 1)
    ELSE c

initializeBlock(c, node, stateTarget, d) ==
    IF c.err # "none" THEN c
    ELSE IF d = 0 THEN [c EXCEPT !.err = "RangeError"]
    ELSE clearOutputNames(
             initializeTeleport(
                 initializeInputs(attachBlock(stampPreparation(c, node, stateTarget), node),
                                  node, 1, stateTarget, d),
                 node, stateTarget, d),
             node)

\* build()'s two loops over the output nodes: roots[i] is pushed on its own list
\* (mine) and walked, the blocks of the other stage go to other
RECURSIVE initializeRoots(_, _, _, _)
initializeRoots(c, roots, i, stateTarget) ==
    IF c.err # "none" \/ i > Len(roots) THEN c
    ELSE initializeRoots(
             initializeBlock([c EXCEPT !.mine = Append(@, roots[i])], roots[i],
                             stateTarget, MaxDepth(c.heap)),
             roots, i + 1, stateTarget)

(***************************************************************************)
(* NodeMaterialBlock.build: the stamp guard, the producers first, then     *)
(* the block's own code.  The context c holds the heap, the two build      *)
(* states vs and fs, the stage under way (target) and the shared data sd.  *)
(***************************************************************************)
\* the steps of a pass, in the order build() takes them (log of the context)
Step(ev, stage, node) == [ev |-> ev, stage |-> stage, node |-> node]

\* the stamp guard of build: the block was already built in this pass
AlreadyBuilt(block, sd) == block.buildId = sd.buildId

\* what _buildBlock declares in the build state, by kind
KindUniforms(k, node, target) ==
    CASE k = "TransformBlock" -> <<[n |-> "world", b |-> 0]>>
      [] k = "TextureBlock" ->
            IF target = "Vertex" THEN <<[n |-> "textureTransform", b |-> node]>>
            ELSE <<[n |-> "textureInfoName", b |-> node]>>
      [] k = "MorphTargetsBlock" ->
            <<[n |-> "morphTargetInfluences", b |-> 0], [n |-> "morphTargetCount", b |-> 0],
              [n |-> "morphTargetTextureInfo", b |-> 0],
              [n |-> "morphTargetTextureIndices", b |-> 0]>>
      [] OTHER -> <<>>

KindSamplers(k, node) ==
    CASE k = "TextureBlock" -> <<[n |-> "textureSampler", b |-> node]>>
      [] k = "MorphTargetsBlock" -> <<[n |-> "morphTargets", b |-> 0]>>
      [] OTHER -> <<>>

KindAttributes(k, node) ==
    IF k = "InputBlock" THEN <<[n |-> "attribute", b |-> node]>> ELSE <<>>

\* a list with the entries of add it does not hold yet appended, in order
RECURSIVE PushUnique(_, _)
PushUnique(list, add) ==
    IF add = <<>> THEN list
    ELSE PushUnique(IF Head(add) \in Range(list) THEN list ELSE Append(list, Head(add)),
                    Tail(add))

\* the outputs of a block get a free variable name each, unless they hold one
RECURSIVE declareOutputs(_, _, _)
declareOutputs(c, node, i) ==
    IF i > Len(c.heap[node].outNames) THEN c
    ELSE IF c.heap[node].outNames[i] # 0 THEN declareOutputs(c, node, i + 1)
    ELSE declareOutputs([c EXCEPT !.heap[node].outNames[i] = c.sd.variableNames + 1,
                                  !.sd.variableNames = @ + 1], node, i + 1)

\* the names a block declares: _emitUniformFromString and its like skip a name the list
\* holds, MorphTargetsBlock._buildBlock pushes on the list
declare(list, k, add) == IF k = "MorphTargetsBlock" THEN list \o add ELSE PushUnique(list, add)

\* the anchor of the repeatable content, not spliced yet: the text holds the anchor itself
Unspliced == [spliced |-> FALSE, text |-> <<>>]

\* state._repeatableContentAnchor: every read is a new anchor; the stage text ends with it
emitAnchor(st, block, node) ==
    IF KindIsRepeatable(block.kind)
    THEN [st EXCEPT !.repeatable = Append(@, [block |-> node, anchor |-> st.anchorIndex,
                                              after |-> Len(st.compilationString),
                                              content |-> Unspliced]),
                    !.anchorIndex = @ + 1]
    ELSE st

\* _buildBlock on one build state: the block's code goes to the stage text
emitInto(st, block, node) ==
    emitAnchor([st EXCEPT
                    !.compilationString = Append(@, [block |-> node, names |-> block.outNames]),
                    !.uniforms = declare(@, block.kind, KindUniforms(block.kind, node, st.target)),
                    !.samplers = declare(@, block.kind, KindSamplers(block.kind, node)),
                    !.attributes = PushUnique(@, KindAttributes(block.kind, node))],
               block, node)

\* the state the block is built into
StateOf(c) == IF c.target = "Vertex" THEN c.vs ELSE c.fs

\* the blocks that register in the shared data when they build
registerIn(list, member, node) == IF member THEN PushUnique(list, <<node>>) ELSE list

registerBlock(sd, block, node) ==
    [sd EXCEPT !.blockingBlocks = registerIn(@, KindIsBlocking(block.kind), node),
               !.inputBlocks = registerIn(@, KindIsInput(block.kind), node),
               !.bindableBlocks = registerIn(@, KindIsBindable(block.kind), node),
               !.forcedBindableBlocks = registerIn(@, KindIsForcedBindable(block.kind), node),
               !.blocksWithDefines = IF KindIsRepeatable(block.kind) THEN Append(@, node) ELSE @,
               !.repeatableContentBlocks = IF KindIsRepeatable(block.kind) THEN Append(@, node)
                                           ELSE @]

\* the end of build: _buildBlock(state), then this._buildId = state.sharedData.buildId
emitBlock(c, node) ==
    IF c.err # "none" \/ AlreadyBuilt(c.heap[node], c.sd) THEN c
    ELSE [c EXCEPT !.vs = IF c.target = "Vertex" THEN emitInto(@, c.heap[node], node) ELSE @,
                   !.fs = IF c.target = "Fragment" THEN emitInto(@, c.heap[node], node) ELSE @,
                   !.sd = registerBlock(@, c.heap[node], node),
                   !.heap[node].buildId = c.sd.buildId,
                   !.heap[node].anchor = IF KindIsRepeatable(c.heap[node].kind)
                                         THEN StateOf(c).anchorIndex ELSE @,
                   !.log = Append(@, Step("_buildBlock", c.target, node))]

\* an input left unconnected: an error of the pass unless the input is optional
reportUnconnected(c, node, i) ==
    IF KindInputIsOptional(c.heap[node].kind, i) THEN c
    ELSE [c EXCEPT !.sd.errors = Append(@, [block |-> node, input |-> i])]

RECURSIVE buildBlock(_, _, _)
RECURSIVE buildInputs(_, _, _, _)

\* build's loop over the inputs, from input i on: the producers build first
buildInputs(c, node, i, d) ==
    IF c.err # "none" \/ i > Len(c.heap[node].inputs) THEN c
    ELSE buildInputs(
             IF c.heap[node].inputs[i].b = 0 THEN reportUnconnected(c, node, i)
             ELSE IF c.heap[node].inputs[i].b # node
                  THEN buildBlock(c, c.heap[node].inputs[i].b, d - 1)
                  ELSE c,
             node, i + 1, d)

\* a teleport-out builds its entry point
buildTeleport(c, node, d) ==
    IF c.err = "none" /\ FollowsTeleport(c.heap, node)
    THEN buildBlock(c, c.heap[node].entryPoint, d - 1)
    ELSE c

buildBlock(c, node, d) ==
    IF c.err # "none" THEN c
    ELSE IF d = 0 THEN [c EXCEPT !.err = "RangeError"]
    ELSE IF AlreadyBuilt(c.heap[node], c.sd) THEN c
    ELSE emitBlock(buildTeleport(buildInputs(declareOutputs(c, node, 1), node, 1, d),
                                 node, d),
                   node)

\* build()'s loop over the nodes of one stage
RECURSIVE buildNodes(_, _, _)
buildNodes(c, nodes, i) ==
    IF c.err # "none" \/ i > Len(nodes) THEN c
    ELSE buildNodes(buildBlock([c EXCEPT !.log = Append(@, Step("build", c.target, nodes[i]))],
                               nodes[i], MaxDepth(c.heap)),
                    nodes, i + 1)

\* NodeMaterialBuildState.finalize: the text is frozen
finalize(st) == [st EXCEPT !.builtCompilationString = st.compilationString,
                           !.finalized = TRUE]

(***************************************************************************)
(* The dual block reset walk, on the context of the build.                 *)
(***************************************************************************)
\* _resetDualBlocks' test
IsDualBlock(block) == block.target = "VertexAndFragment"

\* _resetDualBlocks' stamp
resetStamp(c, node, id) ==
    [c EXCEPT !.heap[node].buildId = IF IsDualBlock(c.heap[node]) THEN id ELSE @,
              !.resets = Append(@, node)]

RECURSIVE resetDualBlocks(_, _, _, _)
RECURSIVE resetDualInputs(_, _, _, _, _)

resetDualInputs(c, node, i, id, d) ==
    IF c.err # "none" \/ i > Len(c.heap[node].inputs) THEN c
    ELSE resetDualInputs(
             IF FollowsInput(c.heap, node, i)
             THEN resetDualBlocks(c, c.heap[node].inputs[i].b, id, d - 1)
             ELSE c,
             node, i + 1, id, d)

resetDualTeleport(c, node, id, d) ==
    IF c.err = "none" /\ FollowsTeleport(c.heap, node)
    THEN resetDualBlocks(c, c.heap[node].entryPoint, id, d - 1)
    ELSE c

resetDualBlocks(c, node, id, d) ==
    IF c.err # "none" THEN c
    ELSE IF d = 0 THEN [c EXCEPT !.err = "RangeError"]
    ELSE resetDualTeleport(resetDualInputs(resetStamp(c, node, id), node, 1, id, d),
                           node, id, d)

RECURSIVE resetDualRoots(_, _, _, _)
resetDualRoots(c, nodes, i, id) ==
    IF c.err # "none" \/ i > Len(nodes) THEN c
    ELSE resetDualRoots(resetDualBlocks(c, nodes[i], id, MaxDepth(c.heap)), nodes, i + 1, id)

(***************************************************************************)
(* The defines of a submesh (NodeMaterialDefines over MaterialDefines).    *)
(***************************************************************************)
\* Constants.MAX_SUPPORTED_UV_SETS
MAX_SUPPORTED_UV_SETS == 6

\* the vertex buffer kind of UV set i
UvKinds == <<"uv", "uv2", "uv3", "uv4", "uv5", "uv6">>

\* the categories of the dirty flag
DirtyCategories ==
    {"attributes", "lights", "textures", "fresnel", "misc", "prePass", "imageProcessing"}

\* the values the class declares
DefaultValues ==
    [NORMAL |-> FALSE, TANGENT |-> FALSE, VERTEXCOLOR_NME |-> FALSE,
     UV |-> [i \in 1..MAX_SUPPORTED_UV_SETS |-> FALSE],
     CAMERA_ORTHOGRAPHIC |-> FALSE, CAMERA_PERSPECTIVE |-> FALSE,
     MORPHTARGETS |-> FALSE, MORPHTARGETS_NORMAL |-> FALSE, MORPHTARGETS_TANGENT |-> FALSE,
     MORPHTARGETS_UV |-> FALSE, NUM_MORPH_INFLUENCERS |-> 0, MORPHTARGETS_TEXTURE |-> FALSE]

\* new NodeMaterialDefines()
NewDefines ==
    [oid |-> 1, values |-> DefaultValues, isDirty |-> TRUE, dirty |-> DirtyCategories,
     areLightsDisposed |-> FALSE, renderId |-> Undefined]

markAsProcessed(d) == [d EXCEPT !.isDirty = FALSE, !.dirty = {}, !.areLightsDisposed = FALSE]
markAsUnprocessed(d) == [d EXCEPT !.isDirty = TRUE]
markAllAsDirty(d) == [d EXCEPT !.isDirty = TRUE, !.dirty = DirtyCategories]
markAsAttributesDirty(d) == [d EXCEPT !.isDirty = TRUE, !.dirty = @ \cup {"attributes"}]
markAsMiscDirty(d) == [d EXCEPT !.isDirty = TRUE, !.dirty = @ \cup {"misc"}]
reset(d) == [d EXCEPT !.values = DefaultValues]

MaxOptimizers == 2

(***************************************************************************)
(* NodeMaterial.build.  BuildPass is the whole call: the result holds the  *)
(* new value of every field the call writes and what it threw.             *)
(***************************************************************************)
\* the precondition checks without the test of the fragment output nodes
PreconditionWithoutFragmentTest ==
    IF Len(vertexOutputNodes) = 0 /\ mode # "Particle" THEN "vertexOutputNode"
    ELSE "none"

\* the precondition checks without the test of the mode
PreconditionWithoutModeTest ==
    IF Len(vertexOutputNodes) = 0 THEN "vertexOutputNode"
    ELSE IF Len(fragmentOutputNodes) = 0 THEN "fragmentOutputNode"
    ELSE "none"

\* the exception of the precondition checks ("none": the pass starts)
Precondition ==
    IF Len(vertexOutputNodes) = 0 /\ mode # "Particle" THEN "vertexOutputNode"
    ELSE IF Len(fragmentOutputNodes) = 0 THEN "fragmentOutputNode"
    ELSE "none"

\* the first build() of a material auto-configures its blocks
EffectiveAutoConfigure(autoConfigure) ==
    IF IsNull(vertexState) /\ ~autoConfigure THEN TRUE ELSE autoConfigure

\* the id _resetDualBlocks stamps on the dual blocks before the fragment stage
DualResetId(id) == id - 1

\* the build id after the pass
NextBuildId(updateBuildId) == IF updateBuildId THEN BuildIdGenerator ELSE buildId

\* sharedData.emitErrors: a non-empty batch is thrown
EmitErrors(sd) == IF sd.errors # <<>> THEN "errors" ELSE "none"

\* the two loops of "Initialize blocks"; in the result, other is vertexNodes and
\* mine is fragmentNodes
SwapLists(c) == [c EXCEPT !.mine = c.other, !.other = c.mine]

InitializeBlocks ==
    initializeRoots(
        SwapLists(initializeRoots([heap |-> heap, attached |-> attachedBlocks,
                                   mine |-> <<>>, other |-> <<>>, err |-> "none",
                                   inits |-> <<>>],
                                  vertexOutputNodes, 1, "Vertex")),
        fragmentOutputNodes, 1, "Fragment")

\* _removeVertexOutputNode / _removeFragmentOutputNode: splice(index, 1)
RemoveFromList(list, node) ==
    IF IndexOf(list, node) = 0 THEN list
    ELSE SubSeq(list, 1, IndexOf(list, node) - 1)
         \o SubSeq(list, IndexOf(list, node) + 1, Len(list))

\* optimizer.optimize(vertexOutputNodes, fragmentOutputNodes): an optimizer rewrites the
\* two arrays it is handed in place; o removes a block from one of them or appends one
optimizeList(list, o) ==
    IF o.op = "remove" THEN RemoveFromList(list, o.block)
    ELSE IF IndexOf(list, o.block) = 0 THEN Append(list, o.block) ELSE list

\* optimize(): every registered optimizer, in the order of the list, on the two lists of
\* the material
RECURSIVE optimize(_, _, _)
optimize(g, opts, i) ==
    IF i > Len(opts) THEN g
    ELSE optimize([vertex |-> IF opts[i].list = "vertex"
                              THEN optimizeList(g.vertex, opts[i]) ELSE g.vertex,
                   fragment |-> IF opts[i].list = "fragment"
                                THEN optimizeList(g.fragment, opts[i]) ELSE g.fragment,
                   called |-> Append(g.called, opts[i])],
                  opts, i + 1)

\* "Optimize": the lists of the material after the call
Optimized ==
    optimize([vertex |-> vertexOutputNodes, fragment |-> fragmentOutputNodes,
              called |-> <<>>], optimizers, 1)

\* a pass whose vertex state is left with the shared data of the pass before
StartBuildOnOldSharedData(h, inits) ==
    [heap |-> h, target |-> "Vertex",
     log |-> Append([i \in 1..Len(inits) |-> Step("initialize", inits[i].stage, inits[i].node)],
                    Step("optimize", "none", 0)),
     vs |-> NewBuildState(nextOid, "Vertex", sharedData.oid),
     fs |-> NewBuildState(nextOid + 1, "Fragment", nextOid + 2),
     sd |-> NewSharedData(nextOid + 2, buildId),
     err |-> "none", resets |-> <<>>]

\* the compilation states and the shared data build() allocates
StartBuild(h, inits) ==
    [heap |-> h, target |-> "Vertex",
     log |-> Append([i \in 1..Len(inits) |-> Step("initialize", inits[i].stage, inits[i].node)],
                    Step("optimize", "none", 0)),
     vs |-> NewBuildState(nextOid, "Vertex", nextOid + 2),
     fs |-> NewBuildState(nextOid + 1, "Fragment", nextOid + 2),
     sd |-> NewSharedData(nextOid + 2, buildId),
     err |-> "none", resets |-> <<>>]

\* a fragment stage that starts with no uniform
StartFragmentWithoutUniforms(c) == [c EXCEPT !.target = "Fragment"]

\* "Fragment": the fragment state starts from the uniforms of the vertex state
StartFragment(c) ==
    [c EXCEPT !.fs.uniforms = c.vs.uniforms, !.target = "Fragment",
              !.log = Append(@, Step("uniforms", "Fragment", Len(c.vs.uniforms)))]

\* the vertex loop, the reset of the dual blocks and the fragment loop
BuildStages(ci) ==
    buildNodes(
        resetDualRoots(StartFragment(buildNodes(StartBuild(ci.heap, ci.inits), ci.other, 1)),
                       ci.mine, 1, DualResetId(buildId)),
        ci.mine, 1)

\* a call that threw one of the two precondition errors and left the success flag alone
PreconditionKeepsFlag(updateBuildId, autoConfigure) ==
    [heap |-> heap, attached |-> attachedBlocks, vs |-> vertexState, fs |-> fragmentState,
     sd |-> sharedData, oid |-> nextOid, id |-> buildId, gen |-> BuildIdGenerator,
     ok |-> buildWasSuccessful, thrown |-> Precondition,
     vertex |-> vertexOutputNodes, fragment |-> fragmentOutputNodes,
     pass |-> [NoPass EXCEPT !.stage = "precondition", !.passId = buildId,
                             !.updateBuildId = updateBuildId,
                             !.autoConfigure = autoConfigure]]

\* a call that threw one of the two precondition errors
PreconditionFailed(updateBuildId, autoConfigure) ==
    [heap |-> heap, attached |-> attachedBlocks, vs |-> vertexState, fs |-> fragmentState,
     sd |-> sharedData, oid |-> nextOid, id |-> buildId, gen |-> BuildIdGenerator,
     ok |-> FALSE, thrown |-> Precondition,
     vertex |-> vertexOutputNodes, fragment |-> fragmentOutputNodes,
     pass |-> [NoPass EXCEPT !.stage = "precondition", !.passId = buildId,
                             !.updateBuildId = updateBuildId,
                             !.autoConfigure = autoConfigure]]

\* a call that threw in "Initialize blocks"
InitializeFailed(ci, c0, updateBuildId, autoConfigure) ==
    [heap |-> ci.heap, attached |-> ci.attached, vs |-> c0.vs, fs |-> c0.fs, sd |-> c0.sd,
     oid |-> nextOid + 3, id |-> buildId, gen |-> BuildIdGenerator, ok |-> FALSE,
     thrown |-> ci.err,
     vertex |-> vertexOutputNodes, fragment |-> fragmentOutputNodes,
     pass |-> [stage |-> "init", vertexNodes |-> ci.other, fragmentNodes |-> ci.mine,
               inits |-> ci.inits, resets |-> <<>>, passId |-> buildId,
               updateBuildId |-> updateBuildId, autoConfigure |-> autoConfigure,
               notified |-> FALSE, optimized |-> <<>>,
               log |-> SubSeq(c0.log, 1, Len(ci.inits))]]

\* a call that went through the two stages: cb is the context after them
StagesDone(ci, cb, updateBuildId, autoConfigure) ==
    [heap |-> cb.heap, attached |-> ci.attached,
     vs |-> IF cb.err = "none" THEN finalize(cb.vs) ELSE cb.vs,
     fs |-> IF cb.err = "none" THEN finalize(cb.fs) ELSE cb.fs,
     sd |-> cb.sd, oid |-> nextOid + 3,
     id |-> IF cb.err = "none" THEN NextBuildId(updateBuildId) ELSE buildId,
     gen |-> IF cb.err = "none" /\ updateBuildId THEN BuildIdGenerator + 1
             ELSE BuildIdGenerator,
     ok |-> (cb.err = "none" /\ EmitErrors(cb.sd) = "none"),
     thrown |-> IF cb.err # "none" THEN cb.err ELSE EmitErrors(cb.sd),
     vertex |-> Optimized.vertex, fragment |-> Optimized.fragment,
     pass |-> [stage |-> IF cb.err = "none" THEN "done" ELSE "build",
               vertexNodes |-> ci.other, fragmentNodes |-> ci.mine,
               inits |-> ci.inits, resets |-> cb.resets, passId |-> buildId,
               updateBuildId |-> updateBuildId, autoConfigure |-> autoConfigure,
               notified |-> (cb.err = "none" /\ EmitErrors(cb.sd) = "none"),
               optimized |-> Optimized.called,
               log |-> IF cb.err = "none"
                       THEN cb.log \o <<Step("finalize", "Vertex", 0),
                                        Step("finalize", "Fragment", 0)>>
                       ELSE cb.log]]

AfterInitialize(ci, updateBuildId, autoConfigure) ==
    IF ci.err # "none"
    THEN InitializeFailed(ci, StartBuild(heap, ci.inits), updateBuildId, autoConfigure)
    ELSE StagesDone(ci, BuildStages(ci), updateBuildId, autoConfigure)

BuildPass(updateBuildId, autoConfigure) ==
    IF Precondition # "none"
    THEN PreconditionFailed(updateBuildId, EffectiveAutoConfigure(autoConfigure))
    ELSE AfterInitialize(InitializeBlocks, updateBuildId,
                         EffectiveAutoConfigure(autoConfigure))

\* subMesh.getMaterial() of the submesh this model follows
ThisMaterial == "this"

\* "Wipe defines": the defines d of a submesh of the scene that draws with material
WipeDefines(material, d, ok) ==
    IF ok /\ material = ThisMaterial /\ ~IsNull(d) THEN reset(markAllAsDirty(d)) ELSE d

(***************************************************************************)
(* The includes a MorphTargetsBlock loads when the walk initializes it.    *)
(***************************************************************************)
\* the material as constructed: the default shader language, every block with its code
\* ready, no include loaded, no call under way
NewLoader ==
    [shaderLanguage |-> "GLSL", notReady |-> {}, modules |-> {}, calls |-> <<>>,
     notified |-> <<>>, nextCall |-> 1]

ShaderLanguages == {"GLSL", "WGSL"}
\* the includes of a dialect, in the order of the imports: morphTargetsVertex,
\* morphTargetsVertexDeclaration, morphTargetsVertexGlobal,
\* morphTargetsVertexGlobalDeclaration
LastInclude == 4

\* _initShaderSourceAsync up to its first await: the flag goes down and the call waits
\* for the first include of the language of the state
initShaderSourceAsync(l, block) ==
    [l EXCEPT !.notReady = @ \cup {block},
              !.calls = Append(@, [id |-> l.nextCall, block |-> block,
                                   dialect |-> l.shaderLanguage, awaits |-> 1]),
              !.nextCall = @ + 1]

\* initialize(state) of block node
initialize(l, node) ==
    IF KindIsRepeatable(heap[node].kind) THEN initShaderSourceAsync(l, node) ELSE l

\* the loads the initialize calls of a pass start, from step i of its log on
RECURSIVE startLoads(_, _, _)
startLoads(l, log, i) ==
    IF i > Len(log) THEN l
    ELSE IF log[i].ev = "initialize" THEN startLoads(initialize(l, log[i].node), log, i + 1)
    ELSE startLoads(l, log, i + 1)

\* the promise call i awaits is resolved: its include is loaded
Resolved(l, i) == <<l.calls[i].dialect, l.calls[i].awaits>> \in l.modules

\* the continuation of call i is the next microtask: its promise is resolved, and so is
\* no promise of a call that is behind it in its imports or that awaits the same include
\* and was made before it
MayResume(l, i) ==
    /\ Resolved(l, i)
    /\ \A j \in 1..Len(l.calls) :
           Resolved(l, j)
           => \/ l.calls[j].awaits > l.calls[i].awaits
              \/ l.calls[j].awaits = l.calls[i].awaits /\ j >= i

\* no continuation is waiting to run: a task (a call of the client, an include that
\* arrives) starts when the microtasks of the task before are done
Quiescent(l) == \A i \in 1..Len(l.calls) : ~Resolved(l, i)

\* the fields build() writes, from the result r of the pass
BuildWrites(r) ==
    /\ heap' = r.heap
    /\ vertexOutputNodes' = r.vertex
    /\ fragmentOutputNodes' = r.fragment
    /\ attachedBlocks' = r.attached
    /\ vertexState' = r.vs
    /\ fragmentState' = r.fs
    /\ sharedData' = r.sd
    /\ nextOid' = r.oid
    /\ buildId' = r.id
    /\ BuildIdGenerator' = r.gen
    /\ buildWasSuccessful' = r.ok
    /\ thrown' = r.thrown
    /\ lastPass' = r.pass
    /\ loader' = startLoads(loader, r.pass.log, 1)
    /\ defines' = WipeDefines(ThisMaterial, defines, r.ok)
    /\ otherSubMesh' = [otherSubMesh EXCEPT
                            !.materialDefines = WipeDefines(otherSubMesh.material, @, r.ok)]

Build(updateBuildId, autoConfigure) ==
    /\ builds < MaxBuilds
    /\ Quiescent(loader)
    /\ BuildWrites(BuildPass(updateBuildId, autoConfigure))
    /\ lastOp' = "build"
    /\ builds' = builds + 1
    /\ since' = since \cup {"build"}
    /\ UNCHANGED <<mode, disposed, serialVars, envVars, bindVars, wrapVars, peers,
                   optimizers, effect, effects, drawWrapper, lastCheck, prevCheck, checks>>

(***************************************************************************)
(* addOutputNode, removeOutputNode and the mode setter.                    *)
(***************************************************************************)
HasVertexTarget(t) == t \in {"Vertex", "VertexAndFragment"}
HasFragmentTarget(t) == t \in {"Fragment", "VertexAndFragment"}

\* _addVertexOutputNode on the graph g (the heap and the two lists)
addVertexOutputNode(g, node) ==
    IF IndexOf(g.vertex, node) # 0 THEN g
    ELSE [g EXCEPT !.heap[node].target = "Vertex", !.vertex = Append(@, node)]

\* _addFragmentOutputNode on the graph g
addFragmentOutputNode(g, node) ==
    IF IndexOf(g.fragment, node) # 0 THEN g
    ELSE [g EXCEPT !.heap[node].target = "Fragment", !.fragment = Append(@, node)]

\* addOutputNode's second test, on the target the first step left
addFragmentIfTargeted(g, node) ==
    IF HasFragmentTarget(g.heap[node].target) THEN addFragmentOutputNode(g, node) ELSE g

\* addOutputNode on the graph g
addOutputNode(g, node) ==
    addFragmentIfTargeted(
        IF HasVertexTarget(g.heap[node].target) THEN addVertexOutputNode(g, node) ELSE g,
        node)

\* the graph of the material
Graph == [heap |-> heap, vertex |-> vertexOutputNodes, fragment |-> fragmentOutputNodes]

GraphWrites(g) ==
    /\ heap' = g.heap
    /\ vertexOutputNodes' = g.vertex
    /\ fragmentOutputNodes' = g.fragment

AddOutputNode(node) ==
    /\ node \in 1..Len(heap)
    /\ KindIsFinalMerger(heap[node].kind)
    /\ GraphWrites(addOutputNode(Graph, node))
    /\ thrown' = "none"
    /\ lastOp' = "addOutputNode"
    /\ UNCHANGED <<attachedBlocks, disposed, mode, buildVars, serialVars, envVars, clientVars, readyVars, since>>

RemoveOutputNode(node) ==
    /\ node \in 1..Len(heap)
    /\ node \in Range(vertexOutputNodes) \cup Range(fragmentOutputNodes)
    /\ vertexOutputNodes' = IF HasVertexTarget(heap[node].target)
                            THEN RemoveFromList(vertexOutputNodes, node)
                            ELSE vertexOutputNodes
    /\ fragmentOutputNodes' = IF HasFragmentTarget(heap[node].target)
                              THEN RemoveFromList(fragmentOutputNodes, node)
                              ELSE fragmentOutputNodes
    /\ thrown' = "none"
    /\ lastOp' = "removeOutputNode"
    /\ UNCHANGED <<heap, attachedBlocks, disposed, mode, buildVars, serialVars, envVars, clientVars, readyVars,
                   since>>

\* registerOptimizer
RegisterOptimizer(o) ==
    /\ IndexOf(optimizers, o) = 0
    /\ Len(optimizers) < MaxOptimizers
    /\ optimizers' = Append(optimizers, o)
    /\ thrown' = "none"
    /\ lastOp' = "registerOptimizer"
    /\ UNCHANGED <<graphVars, buildVars, serialVars, envVars, bindVars, otherSubMesh,
                   wrapVars, peers, loader, readyVars, since>>

\* unregisterOptimizer
UnregisterOptimizer(o) ==
    /\ IndexOf(optimizers, o) # 0
    /\ optimizers' = RemoveFromList(optimizers, o)
    /\ thrown' = "none"
    /\ lastOp' = "unregisterOptimizer"
    /\ UNCHANGED <<graphVars, buildVars, serialVars, envVars, bindVars, otherSubMesh,
                   wrapVars, peers, loader, readyVars, since>>

Modes == {"Material", "Particle"}

SetMode(value) ==
    /\ mode # value
    /\ mode' = value
    /\ thrown' = "none"
    /\ lastOp' = "mode"
    /\ UNCHANGED <<heap, vertexOutputNodes, fragmentOutputNodes, attachedBlocks, disposed, buildVars,
                   serialVars, envVars, clientVars, readyVars, since>>

(***************************************************************************)
(* serialize: the blocks gathered from the output nodes, then the attached *)
(* blocks the walk did not reach.                                          *)
(***************************************************************************)
\* a guard that never finds the block in the list
NeverVisited(list, node) == FALSE

\* _gatherBlocks' guard: the block is already in the list
Visited(list, node) == IndexOf(list, node) # 0

RECURSIVE gatherBlocks(_, _, _)
RECURSIVE gatherInputs(_, _, _, _)

\* _gatherBlocks' loop over the inputs, from input i on
gatherInputs(h, list, node, i) ==
    IF i > Len(h[node].inputs) THEN list
    ELSE gatherInputs(h,
                      IF FollowsInput(h, node, i)
                      THEN gatherBlocks(h, list, h[node].inputs[i].b)
                      ELSE list,
                      node, i + 1)

\* _gatherBlocks' teleportation step
gatherTeleport(h, list, node) ==
    IF FollowsTeleport(h, node) THEN gatherBlocks(h, list, h[node].entryPoint) ELSE list

gatherBlocks(h, list, rootNode) ==
    IF Visited(list, rootNode) THEN list
    ELSE gatherTeleport(h, gatherInputs(h, Append(list, rootNode), rootNode, 1), rootNode)

\* serialize's loops over the output nodes: every root is gathered into blocks
RECURSIVE gatherRoots(_, _, _, _)
gatherRoots(h, list, roots, i) ==
    IF i > Len(roots) THEN list
    ELSE gatherRoots(h, gatherBlocks(h, list, roots[i]), roots, i + 1)

\* the list "blocks" of serialize after the two loops
GatheredBlocks ==
    gatherRoots(heap, gatherRoots(heap, <<>>, vertexOutputNodes, 1), fragmentOutputNodes, 1)

\* the uniqueId of the nodes of a list
UniqueIds(h, nodes) == [i \in 1..Len(nodes) |-> h[nodes[i]].uid]

\* serializationObject.outputNodes: the vertex roots, then the fragment roots not there
OutputNodeIds ==
    PushUnique(UniqueIds(heap, vertexOutputNodes), UniqueIds(heap, fragmentOutputNodes))

\* input.serialize(): the name of the input and, when connected, its producer
serializeInput(h, node, i) ==
    [inputName |-> KindInputs(h[node].kind)[i],
     targetBlockId |-> IF h[node].inputs[i].b = 0 THEN Null
                       ELSE h[h[node].inputs[i].b].uid,
     targetConnectionName |->
         IF h[node].inputs[i].b = 0 THEN ""
         ELSE KindOutputs(h[h[node].inputs[i].b].kind)[h[node].inputs[i].o]]

\* block.serialize()
serializeBlock(h, node) ==
    [customType |-> h[node].kind, id |-> h[node].uid, target |-> h[node].target,
     inputs |-> [i \in 1..Len(h[node].inputs) |-> serializeInput(h, node, i)],
     entryPoint |-> IF FollowsTeleport(h, node) THEN h[h[node].entryPoint].uid ELSE Null]

\* the attached blocks the walk did not gather
RECURSIVE AttachedOnly(_, _)
AttachedOnly(attached, blocks) ==
    IF attached = <<>> THEN <<>>
    ELSE IF Visited(blocks, Head(attached)) THEN AttachedOnly(Tail(attached), blocks)
    ELSE <<Head(attached)>> \o AttachedOnly(Tail(attached), blocks)

\* serializationObject.blocks
SerializedBlocks(h, blocks, attached) ==
    [i \in 1..Len(blocks) |-> serializeBlock(h, blocks[i])]
    \o [i \in 1..Len(AttachedOnly(attached, blocks)) |->
            serializeBlock(h, AttachedOnly(attached, blocks)[i])]

\* the object serialize() returns
SerializationObject ==
    [oid |-> 1, customType |-> "BABYLON.NodeMaterial", mode |-> mode,
     outputNodes |-> OutputNodeIds,
     blocks |-> SerializedBlocks(heap, GatheredBlocks, attachedBlocks)]

Serialize ==
    /\ serializes < MaxSerializes
    /\ serialized' = SerializationObject
    /\ serializes' = serializes + 1
    /\ thrown' = "none"
    /\ lastOp' = "serialize"
    /\ UNCHANGED <<graphVars, buildVars, idMap, lastParse, parses, nextUid, envVars, clientVars, readyVars, since>>

(***************************************************************************)
(* parseSerializedObject(source, rootUrl, merge).  Without merge the       *)
(* blocks it creates are the new heap: the blocks of the cleared graph are *)
(* out of reach.  With merge they come after the blocks of the material.   *)
(***************************************************************************)
NoParse == [merge |-> FALSE, log |-> <<>>]

\* the material after clear(), and the material as it is
Cleared == [heap |-> <<>>, attached |-> <<>>, vertex |-> <<>>, fragment |-> <<>>]
Current ==
    [heap |-> heap, attached |-> attachedBlocks, vertex |-> vertexOutputNodes,
     fragment |-> fragmentOutputNodes]

\* "if (!merge) this.clear()"
ParsedInto(merge) == IF merge THEN Current ELSE Cleared

\* map[id] (Null when the map has no such key); a key written twice holds the last
MapGet(map, id) ==
    IF \E j \in 1..Len(map) : map[j].id = id
    THEN map[CHOOSE j \in 1..Len(map) :
                 map[j].id = id /\ \A l \in (j + 1)..Len(map) : map[l].id # id].block
    ELSE Null

\* new blockType() and block._deserialize(parsedBlock)
deserializeBlock(parsedBlock, uid) ==
    [NewBlock(parsedBlock.customType, uid) EXCEPT
        !.target = parsedBlock.target, !.tempEntryPointUniqueId = parsedBlock.entryPoint]

\* "Create blocks": a block is made from every source.blocks[j], mapped and attached
CreateBlocks(g, source) ==
    [heap |-> g.heap \o [j \in 1..Len(source.blocks) |->
                             deserializeBlock(source.blocks[j], nextUid + j - 1)],
     map |-> [j \in 1..Len(source.blocks) |->
                  [id |-> source.blocks[j].id, block |-> Len(g.heap) + j]],
     attached |-> g.attached \o [j \in 1..Len(source.blocks) |-> Len(g.heap) + j],
     vertex |-> g.vertex, fragment |-> g.fragment, source |-> source, log |-> <<>>]

\* teleportIn.attachToEndpoint(teleportOut): the pending id of the endpoint is dropped
attachToEndpoint(c, teleportIn, teleportOut) ==
    [c EXCEPT !.heap[teleportOut].entryPoint = teleportIn,
              !.heap[teleportOut].tempEntryPointUniqueId = Null,
              !.log = Append(@, Step("attachToEndpoint", "none", teleportOut))]

\* a teleport-out that carries a pending entry point id
IsPending(block) == KindIsTeleportOut(block.kind) /\ block.tempEntryPointUniqueId # Null

\* "Reconnect teleportation": the loop over the attached blocks, from block i on
RECURSIVE ReconnectTeleportation(_, _)
ReconnectTeleportation(c, i) ==
    IF i > Len(c.attached) THEN c
    ELSE ReconnectTeleportation(
             IF IsPending(c.heap[c.attached[i]])
             THEN attachToEndpoint(
                      c, MapGet(c.map, c.heap[c.attached[i]].tempEntryPointUniqueId),
                      c.attached[i])
             ELSE c,
             i + 1)

\* target.getInputByName(name): the index of the input (0: no such input)
GetInputByName(block, name) == IndexOf(KindInputs(block.kind), name)

\* _restoreConnections' test on one serialized input of the candidate
LinksTo(c, block, o, k, i) ==
    /\ MapGet(c.map, c.source.blocks[k].inputs[i].targetBlockId) = block
    /\ c.source.blocks[k].inputs[i].targetConnectionName = KindOutputs(c.heap[block].kind)[o]

\* the input point exists and is not connected yet
CanConnect(c, target, name) ==
    /\ GetInputByName(c.heap[target], name) # 0
    /\ c.heap[target].inputs[GetInputByName(c.heap[target], name)].b = 0

\* outputPoint.connectTo(inputPoint, true)
connectTo(c, block, o, target, name) ==
    [c EXCEPT !.heap[target].inputs[GetInputByName(c.heap[target], name)] =
                  [b |-> block, o |-> o],
              !.log = Append(@, Step("connectTo", name, target))]

RECURSIVE restoreOutputs(_, _, _)
RECURSIVE restoreCandidates(_, _, _, _)
RECURSIVE restoreInputs(_, _, _, _, _)

\* _restoreConnections' loop over candidate.inputs, from input i on
restoreInputs(c, block, o, k, i) ==
    IF i > Len(c.source.blocks[k].inputs) THEN c
    ELSE restoreInputs(
             IF /\ LinksTo(c, block, o, k, i)
                /\ CanConnect(c, MapGet(c.map, c.source.blocks[k].id),
                              c.source.blocks[k].inputs[i].inputName)
             THEN restoreOutputs(
                      connectTo(c, block, o, MapGet(c.map, c.source.blocks[k].id),
                                c.source.blocks[k].inputs[i].inputName),
                      MapGet(c.map, c.source.blocks[k].id), 1)
             ELSE c,
             block, o, k, i + 1)

\* _restoreConnections' loop over source.blocks, from candidate k on
restoreCandidates(c, block, o, k) ==
    IF k > Len(c.source.blocks) THEN c
    ELSE restoreCandidates(
             IF MapGet(c.map, c.source.blocks[k].id) = Null THEN c
             ELSE restoreInputs(c, block, o, k, 1),
             block, o, k + 1)

\* _restoreConnections(block): its loop over block.outputs, from output o on
restoreOutputs(c, block, o) ==
    IF o > Len(KindOutputs(c.heap[block].kind)) THEN c
    ELSE restoreOutputs(restoreCandidates(c, block, o, 1), block, o + 1)

\* a test that lets the connections start at every block
StartsEverywhere(block, merge) == TRUE

\* parseSerializedObject's test on where the connections start: "if (block.inputs.length
\* && !merge) continue"
StartsConnections(block, merge) == ~(Len(block.inputs) # 0 /\ ~merge)

\* the call of _restoreConnections the loop makes for a block
startAt(c, block) ==
    restoreOutputs([c EXCEPT !.log = Append(@, Step("_restoreConnections", "none", block))],
                   block, 1)

\* "Connections": the loop over source.blocks, from blockIndex on
RECURSIVE restoreAll(_, _, _)
restoreAll(c, blockIndex, merge) ==
    IF blockIndex > Len(c.source.blocks) THEN c
    ELSE restoreAll(
             IF MapGet(c.map, c.source.blocks[blockIndex].id) = Null THEN c
             ELSE IF ~StartsConnections(
                          c.heap[MapGet(c.map, c.source.blocks[blockIndex].id)], merge)
                  THEN c
                  ELSE startAt(c, MapGet(c.map, c.source.blocks[blockIndex].id)),
             blockIndex + 1, merge)

\* "Outputs": addOutputNode(map[outputNodeId]) for every id, from index i on
RECURSIVE addOutputNodes(_, _)
addOutputNodes(c, i) ==
    IF i > Len(c.source.outputNodes) THEN c
    ELSE addOutputNodes(addOutputNode(c, MapGet(c.map, c.source.outputNodes[i])), i + 1)

\* the whole call on the source
ParsePass(g, source, merge) ==
    addOutputNodes(restoreAll(ReconnectTeleportation(CreateBlocks(g, source), 1), 1, merge),
                   1)

ParseWrites(c, merge) ==
    /\ heap' = c.heap
    /\ vertexOutputNodes' = c.vertex
    /\ fragmentOutputNodes' = c.fragment
    /\ attachedBlocks' = c.attached
    /\ idMap' = c.map
    /\ mode' = IF merge THEN mode ELSE c.source.mode
    /\ nextUid' = nextUid + Len(c.source.blocks)
    /\ lastParse' = [merge |-> merge, log |-> c.log]

ParseSerializedObject(merge) ==
    /\ parses < MaxParses
    /\ ~IsNull(serialized)
    /\ ParseWrites(ParsePass(ParsedInto(merge), serialized, merge), merge)
    /\ parses' = parses + 1
    /\ thrown' = "none"
    /\ lastOp' = "parseSerializedObject"
    /\ UNCHANGED <<disposed, buildVars, serialized, serializes, envVars, clientVars, readyVars,
                   since>>

(***************************************************************************)
(* The specialization layer: CoreNodeMaterial.isReadyForSubMesh on one     *)
(* submesh of one mesh.  The check threads a context k: the defines, the   *)
(* effect of the submesh, the effects of the engine, the draw wrapper, the *)
(* two compilation states and what the check observed.                     *)
(***************************************************************************)
\* what a check observed: here, of a check that has not happened
NoCheck ==
    [result |-> "none", returned |-> FALSE, attributesChanged |-> 0, marked |-> {},
     attributesDirty |-> FALSE, dirty |-> {}, isDirty |-> FALSE, respliced |-> FALSE,
     created |-> FALSE, installed |-> FALSE, hotSwapped |-> FALSE, textChanged |-> FALSE,
     effectBefore |-> Null, effectAfter |-> Null, since |-> {}]

\* mesh.isVerticesDataPresent(kind)
isVerticesDataPresent(m, kind) == kind \in m.verticesData

\* the attribute-derived values of the defines
AttributeValues(v) == <<v.NORMAL, v.TANGENT, v.VERTEXCOLOR_NME>> \o v.UV

\* the number of attribute-derived values that differ
AttributesChanged(v, w) ==
    Cardinality({i \in 1..Len(AttributeValues(v)) : AttributeValues(v)[i] # AttributeValues(w)[i]})

\* the values _prepareDefinesForAttributes writes
attributeValuesOf(m, v) ==
    [v EXCEPT !.NORMAL = isVerticesDataPresent(m, "normal"),
              !.TANGENT = isVerticesDataPresent(m, "tangent"),
              !.VERTEXCOLOR_NME = m.useVertexColors /\ isVerticesDataPresent(m, "color"),
              !.UV = [i \in 1..MAX_SUPPORTED_UV_SETS |-> isVerticesDataPresent(m, UvKinds[i])]]

\* _prepareDefinesForAttributes' last test
attributesDiffer(v, w) ==
    \/ v.NORMAL # w.NORMAL
    \/ v.TANGENT # w.TANGENT
    \/ v.VERTEXCOLOR_NME # w.VERTEXCOLOR_NME
    \/ \E i \in 1..MAX_SUPPORTED_UV_SETS : v.UV[i] # w.UV[i]

\* an attribute recomputation that marks the category whether a value changed or not
prepareDefinesForAttributesAlwaysDirty(m, d) ==
    markAsAttributesDirty([d EXCEPT !.values = attributeValuesOf(m, d.values)])

\* an attribute recomputation that marks every category on a change
prepareDefinesForAttributesAllDirty(m, d) ==
    IF attributesDiffer(d.values, attributeValuesOf(m, d.values))
    THEN markAllAsDirty([d EXCEPT !.values = attributeValuesOf(m, d.values)])
    ELSE [d EXCEPT !.values = attributeValuesOf(m, d.values)]

\* _prepareDefinesForAttributes
prepareDefinesForAttributes(m, d) ==
    IF attributesDiffer(d.values, attributeValuesOf(m, d.values))
    THEN markAsAttributesDirty([d EXCEPT !.values = attributeValuesOf(m, d.values)])
    ELSE [d EXCEPT !.values = attributeValuesOf(m, d.values)]

\* PrepareDefinesForCamera: the two camera values; a change marks the misc category
prepareDefinesForCamera(m, d) ==
    IF d.values.CAMERA_ORTHOGRAPHIC # m.cameraOrthographic
       \/ d.values.CAMERA_PERSPECTIVE # ~m.cameraOrthographic
    THEN markAsMiscDirty([d EXCEPT !.values.CAMERA_ORTHOGRAPHIC = m.cameraOrthographic,
                                   !.values.CAMERA_PERSPECTIVE = ~m.cameraOrthographic])
    ELSE d

\* PushMaterial._isReadyForSubMesh: the defines were checked in this render
PushIsReadyForSubMesh(k) == k.effect # Null /\ k.defines.renderId = mesh.renderId

\* the shortcut of a frozen material
FrozenAndReady(useInstances) ==
    /\ effect # Null
    /\ isFrozen
    /\ drawWrapper.wasPreviouslyReady
    /\ drawWrapper.wasPreviouslyUsingInstances = useInstances

\* some blocking block is not ready
BlockingBlocksNotReady == sharedData.blockingBlocks # <<>> /\ ~mesh.texturesReady

\* the context a check starts from
StartCheck ==
    [defines |-> defines, effect |-> effect, effects |-> effects, dw |-> drawWrapper,
     vs |-> vertexState, fs |-> fragmentState, lightDisposed |-> FALSE,
     obs |-> [NoCheck EXCEPT !.effectBefore = effect, !.effectAfter = effect,
                             !.since = since]]

\* the check returns
return(k, result, value) == [k EXCEPT !.obs.result = result, !.obs.returned = value]

\* if (!subMesh.materialDefines) subMesh.materialDefines = new NodeMaterialDefines()
ensureDefines(k) == IF IsNull(k.defines) THEN [k EXCEPT !.defines = NewDefines] ELSE k

\* the context with the defines d after _prepareDefinesForAttributes
withAttributes(k, d) ==
    [k EXCEPT !.defines = d,
              !.obs.attributesChanged = AttributesChanged(k.defines.values, d.values),
              !.obs.marked = d.dirty \ k.defines.dirty,
              !.obs.attributesDirty = "attributes" \in d.dirty]

(***************************************************************************)
(* MorphTargetsBlock: the defines it prepares and the repeatable content   *)
(* it splices into the vertex text.                                        *)
(***************************************************************************)
\* PrepareDefinesForMorphTargets
PrepareDefinesForMorphTargets(m, d) ==
    IF m.morphTargetManager.present
    THEN [d EXCEPT
             !.values.MORPHTARGETS_UV = m.morphTargetManager.supportsUVs /\ d.values.UV[1],
             !.values.MORPHTARGETS_TANGENT =
                 m.morphTargetManager.supportsTangents /\ d.values.TANGENT,
             !.values.MORPHTARGETS_NORMAL =
                 m.morphTargetManager.supportsNormals /\ d.values.NORMAL,
             !.values.NUM_MORPH_INFLUENCERS = m.morphTargetManager.numInfluencers,
             !.values.MORPHTARGETS = m.morphTargetManager.numInfluencers > 0,
             !.values.MORPHTARGETS_TEXTURE = m.morphTargetManager.isUsingTextureForTargets]
    ELSE [d EXCEPT !.values.MORPHTARGETS_UV = FALSE, !.values.MORPHTARGETS_TANGENT = FALSE,
                   !.values.MORPHTARGETS_NORMAL = FALSE, !.values.NUM_MORPH_INFLUENCERS = 0,
                   !.values.MORPHTARGETS = FALSE, !.values.MORPHTARGETS_TEXTURE = FALSE]

\* prepareDefines' first test: the targets are in a texture and their number changed
morphMarksDirty(m, d) ==
    IF /\ m.morphTargetManager.present
       /\ m.morphTargetManager.isUsingTextureForTargets
       /\ m.morphTargetManager.numInfluencers # d.values.NUM_MORPH_INFLUENCERS
    THEN markAsAttributesDirty(d)
    ELSE d

\* prepareDefines from "if (!defines._areAttributesDirty) return" on
morphPreparesIfDirty(m, d) ==
    IF "attributes" \notin d.dirty THEN d ELSE PrepareDefinesForMorphTargets(m, d)

\* MorphTargetsBlock.prepareDefines
morphPrepareDefines(m, d) == morphPreparesIfDirty(m, morphMarksDirty(m, d))

\* "Shared defines": prepareDefines of every block with defines, from block i on
RECURSIVE prepareDefines(_, _, _, _)
prepareDefines(m, d, blocks, i) ==
    IF i > Len(blocks) THEN d
    ELSE prepareDefines(m, morphPrepareDefines(m, d), blocks, i + 1)

\* what replaceRepeatableContent reads: the count and the three "has" values
MorphCase(m, d) ==
    [repeatCount |-> d.values.NUM_MORPH_INFLUENCERS,
     texture |-> m.morphTargetManager.present
                 /\ m.morphTargetManager.isUsingTextureForTargets,
     hasNormals |-> m.morphTargetManager.present /\ m.morphTargetManager.supportsNormals
                    /\ d.values.NORMAL,
     hasTangents |-> m.morphTargetManager.present /\ m.morphTargetManager.supportsTangents
                     /\ d.values.TANGENT,
     hasUVs |-> m.morphTargetManager.present /\ m.morphTargetManager.supportsUVs
                /\ d.values.UV[1]]

\* a line of the injected code: what it is and the influencer it is about (LoopIndex: the
\* variable i of the loop over the texture, NoIndex: none)
LoopIndex == 0 - 1
NoIndex == 0 - 2
Line(s, index) == [s |-> s, index |-> index]

\* the lines of one influencer: the position statement, then the normal, uv and tangent
\* statements, each in its conditional
StatementsOf(index, mc) ==
    <<Line("position", index)>>
    \o (IF mc.hasNormals
        THEN <<Line("#ifdef MORPHTARGETS_NORMAL", index), Line("normal", index),
               Line("#endif", index)>>
        ELSE <<>>)
    \o (IF mc.hasUVs
        THEN <<Line("#ifdef MORPHTARGETS_UV", index), Line("uv", index),
               Line("#endif", index)>>
        ELSE <<>>)
    \o (IF mc.hasTangents
        THEN <<Line("#ifdef MORPHTARGETS_TANGENT", index), Line("tangent", index),
               Line("#endif", index)>>
        ELSE <<>>)

\* "for (let index = 0; index < repeatCount; index++)": the lines from index on
RECURSIVE unroll(_, _, _)
unroll(acc, index, mc) ==
    IF index >= mc.repeatCount THEN acc
    ELSE unroll(acc \o StatementsOf(index, mc), index + 1, mc)

\* injectionCode: the declaration of vertexID, then the lines between #ifdef MORPHTARGETS
\* and #endif, a loop over the texture or the unrolled statements
InjectionCode(mc) ==
    [spliced |-> TRUE,
     text |-> (IF mc.texture /\ mc.repeatCount > 0
               THEN <<Line("vertexID", NoIndex)>> ELSE <<>>)
              \o <<Line("#ifdef MORPHTARGETS", NoIndex)>>
              \o (IF mc.texture
                  THEN <<Line("for", LoopIndex)>> \o StatementsOf(LoopIndex, mc)
                       \o <<Line("}", LoopIndex)>>
                  ELSE unroll(<<>>, 0, mc))
              \o <<Line("#endif", NoIndex)>>]

\* String.replace(anchor, injectionCode): the first place of the text that holds the
\* anchor (0: none)
NoAnchor(rep, anchor, i) == 0

RECURSIVE FirstAnchor(_, _, _)
FirstAnchor(rep, anchor, i) ==
    IF i > Len(rep) THEN 0
    ELSE IF rep[i].anchor = anchor /\ ~rep[i].content.spliced THEN i
    ELSE FirstAnchor(rep, anchor, i + 1)

replaceAnchor(rep, at, injection) ==
    IF at = 0 THEN rep ELSE [rep EXCEPT ![at].content = injection]

\* the attributes of one influencer: position, then normal, tangent and uv
AttributesOf(index, mc) ==
    <<[n |-> "position", b |-> index]>>
    \o (IF mc.hasNormals THEN <<[n |-> "normal", b |-> index]>> ELSE <<>>)
    \o (IF mc.hasTangents THEN <<[n |-> "tangent", b |-> index]>> ELSE <<>>)
    \o (IF mc.hasUVs THEN <<[n |-> "uv_", b |-> index]>> ELSE <<>>)

\* "if (repeatCount > 0)": state.attributes.push for every influencer
RECURSIVE pushAttributes(_, _, _)
pushAttributes(list, index, mc) ==
    IF index >= mc.repeatCount THEN list
    ELSE pushAttributes(list \o AttributesOf(index, mc), index + 1, mc)

\* MorphTargetsBlock.replaceRepeatableContent of block node on the vertex state
replaceRepeatableContent(st, node, mc) ==
    [st EXCEPT !.repeatable = replaceAnchor(@, FirstAnchor(@, heap[node].anchor, 1),
                                            InjectionCode(mc)),
               !.attributes = pushAttributes(@, 0, mc)]

\* "Repeatable content generators": every repeatable content block, from block i on
RECURSIVE replaceAll(_, _, _, _)
replaceAll(st, blocks, i, mc) ==
    IF i > Len(blocks) THEN st
    ELSE replaceAll(replaceRepeatableContent(st, blocks[i], mc), blocks, i + 1, mc)

\* the uniforms and samplers of the fragment state pushed on those of the vertex state
mergeLists(vs, fs) ==
    [vs EXCEPT !.uniforms = PushUnique(@, fs.uniforms),
               !.samplers = PushUnique(@, fs.samplers)]

\* the stage text left as the last specialization wrote it
keepText(st) == st

\* the stage text goes back to the text build() froze, for the repeatable content
resetText(st) ==
    [st EXCEPT !.compilationString = st.builtCompilationString,
               !.repeatable = [i \in DOMAIN st.repeatable |->
                                  [st.repeatable[i] EXCEPT !.content = Unspliced]]]

\* _processDefines' branch "Need to recompile?"
recompile(k) ==
    [k EXCEPT !.lightDisposed = k.defines.areLightsDisposed,
              !.defines = markAsProcessed(k.defines),
              !.vs = mergeLists(replaceAll(resetText(k.vs), sharedData.repeatableContentBlocks,
                                           1, MorphCase(mesh, k.defines)),
                                k.fs),
              !.fs = resetText(k.fs),
              !.obs.respliced = TRUE]

\* _processDefines after the camera defines: d is the defines it tests
processDirty(k, d) ==
    IF d.isDirty
    THEN recompile([k EXCEPT !.defines = d, !.obs.dirty = d.dirty, !.obs.isDirty = TRUE])
    ELSE [k EXCEPT !.defines = d, !.obs.dirty = d.dirty]

processDefines(k) ==
    processDirty(k, prepareDefines(mesh, prepareDefinesForCamera(mesh, k.defines),
                                   sharedData.blocksWithDefines, 1))

\* the text of a stage: what the blocks emitted, and what stands at the anchors
StageSource(st) == <<st.compilationString, st.repeatable>>

\* the key the engine caches an effect under
EffectKey(k) ==
    [defines |-> k.defines.values, vertexSource |-> StageSource(k.vs),
     fragmentSource |-> StageSource(k.fs)]

\* the engine's effect of a key (0: none yet)
FindEffect(es, key) ==
    IF \E e \in 1..Len(es) : es[e].key = key
    THEN CHOOSE e \in 1..Len(es) : es[e].key = key
    ELSE 0

\* engine.createEffect: the cached effect of the key, or a new one that is ready
\* at once (ready) or compiles in the background
createEffect(es, key, ready) ==
    IF FindEffect(es, key) # 0 THEN es ELSE Append(es, [key |-> key, ready |-> ready])

\* effect.isReady()
EffectIsReady(es, e) == es[e].ready

\* "Use previous effect while new one is compiling", or the new effect is set
useEffect(k, e) ==
    IF allowShaderHotSwapping /\ k.effect # Null /\ ~EffectIsReady(k.effects, e)
    THEN [k EXCEPT !.defines = [markAsUnprocessed(k.defines) EXCEPT
                                    !.areLightsDisposed = k.lightDisposed \/ @],
                   !.obs.hotSwapped = TRUE,
                   !.obs.result = IF k.lightDisposed THEN "lightDisposed" ELSE @]
    ELSE [k EXCEPT !.effect = e, !.obs.installed = TRUE, !.obs.effectAfter = e]

\* the branch "if (result)": the effect is created and used
compile(k, es, key) ==
    useEffect([k EXCEPT !.effects = es, !.obs.created = TRUE], FindEffect(es, key))

\* the end of the check: the effect of the submesh decides
finish(k, useInstances) ==
    IF k.obs.result = "lightDisposed" THEN return(k, "lightDisposed", FALSE)
    ELSE IF k.effect = Null \/ ~EffectIsReady(k.effects, k.effect)
    THEN return(k, "pending", FALSE)
    ELSE return([k EXCEPT !.defines.renderId = mesh.renderId,
                          !.dw = [wasPreviouslyReady |-> TRUE,
                                  wasPreviouslyUsingInstances |-> useInstances]],
                "ready", TRUE)

afterProcess(k, useInstances, ready) ==
    IF k.obs.respliced
    THEN finish(compile(k, createEffect(k.effects, EffectKey(k), ready), EffectKey(k)),
                useInstances)
    ELSE finish(k, useInstances)

afterAttributes(k, useInstances, ready) ==
    IF BlockingBlocksNotReady THEN return(k, "blocked", FALSE)
    ELSE afterProcess(processDefines(k), useInstances, ready)

afterDefines(k, useInstances, ready) ==
    IF PushIsReadyForSubMesh(k) THEN return(k, "cached", TRUE)
    ELSE afterAttributes(withAttributes(k, prepareDefinesForAttributes(mesh, k.defines)),
                         useInstances, ready)

\* CoreNodeMaterial.isReadyForSubMesh
coreIsReadyForSubMesh(useInstances, ready) ==
    IF FrozenAndReady(useInstances) THEN return(StartCheck, "frozen", TRUE)
    ELSE afterDefines(ensureDefines(StartCheck), useInstances, ready)

\* NodeMaterial.isReadyForSubMesh
\* (this._sharedData.animatedInputs throws when the shared data is null)
isReadyForSubMesh(useInstances, ready) ==
    IF ~buildWasSuccessful THEN return(StartCheck, "notBuilt", FALSE)
    ELSE IF IsNull(sharedData) THEN return(StartCheck, "TypeError", FALSE)
    ELSE coreIsReadyForSubMesh(useInstances, ready)

\* the stage text differs from the one the check found
TextChanged(k) ==
    /\ k.obs.respliced
    /\ \/ StageSource(k.vs) # StageSource(vertexState)
       \/ StageSource(k.fs) # StageSource(fragmentState)

CheckWrites(k) ==
    /\ defines' = k.defines
    /\ effect' = k.effect
    /\ effects' = k.effects
    /\ drawWrapper' = k.dw
    /\ vertexState' = k.vs
    /\ fragmentState' = k.fs
    /\ lastCheck' = [k.obs EXCEPT !.textChanged = TextChanged(k)]

IsReadyForSubMesh(useInstances, ready) ==
    /\ checks < MaxChecks
    /\ CheckWrites(isReadyForSubMesh(useInstances, ready))
    /\ prevCheck' = lastCheck
    /\ checks' = checks + 1
    /\ since' = {}
    /\ thrown' = IF lastCheck'.result = "TypeError" THEN "TypeError" ELSE "none"
    /\ lastOp' = "isReadyForSubMesh"
    /\ UNCHANGED <<graphVars, buildId, BuildIdGenerator, buildWasSuccessful, sharedData,
                   nextOid, lastPass, builds, serialVars, envVars, clientVars>>

(***************************************************************************)
(* The mesh, the scene and the engine between the checks.                  *)
(***************************************************************************)
MaxMorphChanges == 2

\* the vertex buffers the behaviours add to and remove from the mesh
ChangedKinds == {"tangent", "color", "uv2"}

\* what no step of the mesh, the scene or the engine writes
EnvironmentUnchanged ==
    UNCHANGED <<graphVars, buildVars, serialVars, readyVars, clientVars, thrown, lastOp,
                isFrozen,
                allowShaderHotSwapping>>

EnvironmentStep(what) ==
    /\ since' = since \cup {what}
    /\ EnvironmentUnchanged

\* mesh.setVerticesData(kind, ...) and mesh.removeVerticesData(kind)
SetVerticesData(kind) ==
    /\ changes < MaxChanges
    /\ mesh' = [mesh EXCEPT !.verticesData = IF kind \in @ THEN @ \ {kind} ELSE @ \cup {kind}]
    /\ changes' = changes + 1
    /\ EnvironmentStep("capability")

\* mesh.useVertexColors = value
SetUseVertexColors(value) ==
    /\ changes < MaxChanges
    /\ mesh.useVertexColors # value
    /\ mesh' = [mesh EXCEPT !.useVertexColors = value]
    /\ changes' = changes + 1
    /\ EnvironmentStep("capability")

\* the active camera of the scene changes its mode
SetCameraMode(orthographic) ==
    /\ changes < MaxChanges
    /\ mesh.cameraOrthographic # orthographic
    /\ mesh' = [mesh EXCEPT !.cameraOrthographic = orthographic]
    /\ changes' = changes + 1
    /\ EnvironmentStep("capability")

\* the morph target manager of the mesh gets targets: the manager marks the attributes of
\* the submeshes dirty
SetMorphTargets(n, texture) ==
    /\ changes < MaxMorphChanges
    /\ mesh.morphTargetManager.numInfluencers # n
       \/ mesh.morphTargetManager.isUsingTextureForTargets # texture
    /\ mesh' = [mesh EXCEPT !.morphTargetManager =
                    [present |-> TRUE, numInfluencers |-> n,
                     isUsingTextureForTargets |-> texture, supportsNormals |-> TRUE,
                     supportsTangents |-> FALSE, supportsUVs |-> FALSE]]
    /\ defines' = IF IsNull(defines) THEN defines ELSE markAsAttributesDirty(defines)
    /\ changes' = changes + 1
    /\ since' = since \cup {"capability"}
    /\ UNCHANGED <<graphVars, buildVars, serialVars, clientVars, effect, effects,
                   drawWrapper, lastCheck, prevCheck, checks, thrown, lastOp, isFrozen,
                   allowShaderHotSwapping>>

\* the textures of the blocking blocks are loaded
TexturesLoaded ==
    /\ ~mesh.texturesReady
    /\ mesh' = [mesh EXCEPT !.texturesReady = TRUE]
    /\ UNCHANGED <<changes, since>>
    /\ EnvironmentUnchanged

\* the scene renders a frame: its render id moves on
Render ==
    /\ mesh.renderId <= MaxFrames
    /\ mesh' = [mesh EXCEPT !.renderId = @ + 1]
    /\ UNCHANGED changes
    /\ EnvironmentStep("frame")

\* the engine ends the compilation of an effect
EffectCompiled(e) ==
    /\ e \in 1..Len(effects)
    /\ ~effects[e].ready
    /\ effects' = [effects EXCEPT ![e].ready = TRUE]
    /\ UNCHANGED <<since, graphVars, buildVars, serialVars, envVars, clientVars, defines, effect, drawWrapper,
                   lastCheck, prevCheck, checks, thrown, lastOp>>

-----------------------------------------------------------------------------
\* Binding (CoreNodeMaterial.bindOnlyWorldMatrix, CoreNodeMaterial.bindForSubMesh)

MaxBinds == 2

\* no bindForSubMesh() ran yet
NoBind == [bound |-> FALSE, mustRebind |-> FALSE, frozen |-> FALSE, calls |-> <<>>]

\* one call per block of the list, in the order of the list
CallEach(op, blocks) == [i \in 1..Len(blocks) |-> [op |-> op, block |-> blocks[i]]]

\* the calls of bindOnlyWorldMatrix() once an active effect is set
bindOnlyWorldMatrix(active, sd) ==
    IF active = Null THEN <<>> ELSE CallEach("_transmitWorld", sd.inputBlocks)

\* the calls that follow the world matrix in bindForSubMesh()
bindBlocks(sd, mustRebind, frozen) ==
    IF mustRebind
    THEN CallEach("bind", sd.bindableBlocks) \o CallEach("bind", sd.forcedBindableBlocks)
         \o CallEach("_transmit", sd.inputBlocks)
    ELSE IF ~frozen THEN CallEach("bind", sd.forcedBindableBlocks) ELSE <<>>

\* bindForSubMesh(world, mesh, subMesh); mustRebind is what _mustRebind() answers
BindForSubMesh(mustRebind) ==
    /\ binds < MaxBinds
    /\ binds' = binds + 1
    /\ lastOp' = "bindForSubMesh"
    /\ IF effect = Null
       THEN /\ lastBind' = NoBind
            /\ UNCHANGED <<activeEffect, thrown>>
       ELSE IF IsNull(sharedData)
       THEN \* bindOnlyWorldMatrix: this._sharedData.hints throws
            /\ activeEffect' = effect
            /\ lastBind' = NoBind
            /\ thrown' = "TypeError"
       ELSE /\ activeEffect' = effect
            /\ UNCHANGED thrown
            /\ lastBind' = [bound |-> TRUE, mustRebind |-> mustRebind, frozen |-> isFrozen,
                            calls |-> bindOnlyWorldMatrix(effect, sharedData)
                                      \o bindBlocks(sharedData, mustRebind, isFrozen)]
    /\ UNCHANGED <<graphVars, buildVars, serialVars, envVars, readyVars, otherSubMesh,
                   wrapVars, peers, loader, optimizers, since>>

-----------------------------------------------------------------------------
\* The effects created from the material for a post process, a procedural texture
\* and a particle system (_createEffectForPostProcess, createProceduralTexture,
\* _createEffectForParticles) and the callbacks they register

MaxApplies == 3

WrapperKinds == {"PostProcess", "ProceduralTexture", "Particle"}

\* what particleSystem.fillDefines() answers, joined: nothing, or the defines of the system
ParticleSystemDefines == {"", "#define BILLBOARD"}

NoWrapper == [kind |-> "none"]
NoApply == [changed |-> FALSE, dirtyBefore |-> FALSE, nameBefore |-> <<>>,
            storeBefore |-> {}, registered |-> FALSE]

\* this.name + this._buildId (+ "_" + blendMode for a particle system)
TempName(kind, id) == IF kind = "Particle" THEN <<"node", id, "_", 0>> ELSE <<"node", id>>

\* the entries Effect.RegisterShader(name, pixelShader, vertexShader) writes: the particle
\* effect registers no vertex shader
RegisterShader(store, kind, name) ==
    store \cup {<<name, "PixelShader">>}
          \cup (IF kind = "Particle" THEN {} ELSE {<<name, "VertexShader">>})

\* delete Effect.ShadersStore[tempName + ...]
DeleteShaders(store, kind, name) ==
    store \ ({<<name, "PixelShader">>}
             \cup (IF kind = "Particle" THEN {} ELSE {<<name, "VertexShader">>}))

\* the context of _processDefines(dummyMesh, defines) for the defines of the wrapper
WrapperCheck(d) == processDefines([StartCheck EXCEPT !.defines = d])

\* the creation: the defines are processed and the stage text registered
CreateWrapper(kind, joined) ==
    /\ wrapper = NoWrapper
    /\ ~IsNull(fragmentState)
    /\ kind = "PostProcess" \/ mode = kind
    /\ joined = "" \/ kind = "Particle"
    /\ wrapper' = [kind |-> kind, buildId |-> buildId, tempName |-> TempName(kind, buildId),
                   defines |-> WrapperCheck(NewDefines).defines,
                   join |-> joined, fillDefines |-> joined, applies |-> 0]
    /\ ShadersStore' = RegisterShader(ShadersStore, kind, TempName(kind, buildId))
    /\ vertexState' = WrapperCheck(NewDefines).vs
    /\ fragmentState' = WrapperCheck(NewDefines).fs
    /\ lastOp' = "createEffect"
    /\ UNCHANGED <<graphVars, buildId, BuildIdGenerator, buildWasSuccessful, sharedData,
                   nextOid, lastPass, builds, serialVars, envVars, readyVars, bindVars,
                   otherSubMesh, lastApply, peers, loader, optimizers,
                   thrown, since>>

\* the callback's branch "if (buildId !== this._buildId)", on the closure w and the store
onBuildIdChanged(c, id) ==
    IF c.w.buildId # id
    THEN [c EXCEPT !.store = DeleteShaders(@, c.w.kind, c.w.tempName),
                   !.w.tempName = TempName(c.w.kind, id),
                   !.w.defines = markAllAsDirty(@),
                   !.w.buildId = id]
    ELSE c

\* the particle callback's test of the defines of the particle system
onFillDefines(c) ==
    IF c.w.kind = "Particle" /\ c.w.fillDefines # c.w.join
    THEN [c EXCEPT !.w.defines = markAllAsDirty(@), !.w.join = c.w.fillDefines]
    ELSE c

\* the observer that the particle callback's call of _createEffectForParticles adds to
\* the new effect: its join is the particleSystemDefinesJoined of the call
newObserver(w, id) ==
    IF w.kind = "Particle"
    THEN [w EXCEPT !.tempName = TempName(w.kind, id), !.buildId = id, !.join = ""]
    ELSE w

\* "if (result)": the stage text is registered under the name
onResult(c, k, id) ==
    IF k.obs.respliced
    THEN [c EXCEPT !.store = RegisterShader(@, c.w.kind, c.w.tempName),
                   !.w = newObserver([c.w EXCEPT !.defines = k.defines], id)]
    ELSE [c EXCEPT !.w.defines = k.defines]

\* the callback from _processDefines on: k is the context _processDefines left
afterWrapperDefines(c, k) ==
    /\ wrapper' = [onResult(c, k, buildId).w EXCEPT !.applies = @ + 1]
    /\ ShadersStore' = onResult(c, k, buildId).store
    /\ vertexState' = k.vs
    /\ fragmentState' = k.fs
    /\ lastApply' = [changed |-> wrapper.buildId # buildId,
                     dirtyBefore |-> wrapper.defines.isDirty,
                     nameBefore |-> wrapper.tempName,
                     storeBefore |-> ShadersStore,
                     registered |-> k.obs.respliced]

onWrapperCallback(c) == afterWrapperDefines(c, WrapperCheck(c.w.defines))

\* postProcess.onApplyObservable, proceduralTexture.onBeforeGenerationObservable and
\* effect.onBindObservable notify the callback
WrapperCallback ==
    /\ wrapper # NoWrapper
    /\ wrapper.applies < MaxApplies
    /\ onWrapperCallback(
           onFillDefines(onBuildIdChanged([w |-> wrapper, store |-> ShadersStore], buildId)))
    /\ lastOp' = "callback"
    /\ UNCHANGED <<graphVars, buildId, BuildIdGenerator, buildWasSuccessful, sharedData,
                   nextOid, lastPass, builds, serialVars, envVars, readyVars, bindVars,
                   otherSubMesh, peers, loader, optimizers, thrown, since>>

-----------------------------------------------------------------------------
\* NodeMaterial.clone.  After the step the variables of the material describe the clone;
\* the material it was cloned from is kept in peers.

MaxClones == 1

\* the text of a stage as it reads: what each block class emitted, with its variables
StageText(h, st) ==
    [i \in 1..Len(st.compilationString) |->
        [kind |-> h[st.compilationString[i].block].kind,
         names |-> st.compilationString[i].names]]

\* what a material compiled: nothing before its first pass, else the text of its stages
CompiledGraph(h, vs, fs) ==
    IF IsNull(vs) \/ IsNull(fs) THEN <<>> ELSE <<StageText(h, vs), StageText(h, fs)>>

\* clone(name, shareEffect) up to its call of build(): the source is serialized, the
\* clone constructed (its constructor takes an id of the generator), the serialization
\* object parsed into it and the buildId of the source written over its own
CloneMaterial(shareEffect) ==
    /\ Len(peers) < MaxClones
    /\ builds < MaxBuilds
    /\ lastOp # "clone"
    /\ peers' = Append(peers, [buildId |-> buildId, constructed |-> BuildIdGenerator,
                               shareEffect |-> shareEffect,
                               built |-> buildWasSuccessful,
                               compiled |-> CompiledGraph(heap, vertexState, fragmentState)])
    /\ serialized' = SerializationObject
    /\ ParseWrites(ParsePass(Cleared, SerializationObject, FALSE), FALSE)
    /\ buildId' = buildId
    /\ BuildIdGenerator' = BuildIdGenerator + 1
    /\ buildWasSuccessful' = FALSE
    /\ sharedData' = NoObject
    /\ vertexState' = NoObject
    /\ fragmentState' = NoObject
    /\ lastPass' = NoPass
    /\ optimizers' = <<>>
    /\ loader' = NewLoader
    /\ thrown' = "none"
    /\ lastOp' = "clone"
    /\ UNCHANGED <<disposed, nextOid, builds, serializes, parses, envVars, readyVars,
                   bindVars, otherSubMesh, wrapVars, since>>

\* the call clone() ends with: build(false, !shareEffect)
CloneBuild ==
    /\ lastOp = "clone"
    /\ Build(~peers[Len(peers)].shareEffect, FALSE)

(***************************************************************************)
(* The shader language of the material and the asynchronous loads.         *)
(***************************************************************************)
\* the shaderLanguage setter
SetShaderLanguage(value) ==
    /\ Quiescent(loader)
    /\ loader.shaderLanguage # value
    /\ loader' = [loader EXCEPT !.shaderLanguage = value]
    /\ UNCHANGED <<graphVars, buildVars, serialVars, envVars, readyVars, bindVars,
                   otherSubMesh, wrapVars, peers, optimizers, thrown, lastOp, since>>

\* an include some call waits for arrives: its import promise resolves
ImportResolves(dialect, include) ==
    /\ Quiescent(loader)
    /\ <<dialect, include>> \notin loader.modules
    /\ \E i \in 1..Len(loader.calls) :
           loader.calls[i].dialect = dialect /\ loader.calls[i].awaits = include
    /\ loader' = [loader EXCEPT !.modules = @ \cup {<<dialect, include>>}]
    /\ UNCHANGED <<graphVars, buildVars, serialVars, envVars, readyVars, bindVars,
                   otherSubMesh, wrapVars, peers, optimizers, thrown, lastOp, since>>

\* the end of _initShaderSourceAsync: the flag goes up and the observers are notified
codeIsReady(l, i) ==
    [l EXCEPT !.notReady = @ \ {l.calls[i].block},
              !.notified = Append(@, [block |-> l.calls[i].block, id |-> l.calls[i].id,
                                      ready |-> TRUE]),
              !.calls = SubSeq(@, 1, i - 1) \o SubSeq(@, i + 1, Len(@))]

\* the continuation of call i after an await: the next import, or the end of the function
Resume(i) ==
    /\ i \in 1..Len(loader.calls)
    /\ MayResume(loader, i)
    /\ loader' = IF loader.calls[i].awaits < LastInclude
                 THEN [loader EXCEPT !.calls[i].awaits = @ + 1]
                 ELSE codeIsReady(loader, i)
    /\ UNCHANGED <<graphVars, buildVars, serialVars, envVars, readyVars, bindVars,
                   otherSubMesh, wrapVars, peers, optimizers, thrown, lastOp, since>>

(***************************************************************************)
(* MorphTargetsBlock.autoConfigure.                                        *)
(***************************************************************************)
\* new InputBlock(name) followed by setAsAttribute
NewInputBlock(name, uid) ==
    [NewBlock("InputBlock", uid) EXCEPT !.name = name, !.isAttribute = TRUE]

\* getInputBlockByPredicate with the predicate of autoConfigure, from attached block k on:
\* the first attached input block that is an attribute, has the name and passes the
\* filter (rejected: the blocks additionalFilteringInfo refuses), 0 for null
NoInputBlock(h, attached, name, rejected, k) == 0

RECURSIVE getInputBlockByPredicate(_, _, _, _, _)
getInputBlockByPredicate(h, attached, name, rejected, k) ==
    IF k > Len(attached) THEN 0
    ELSE IF /\ KindIsInput(h[attached[k]].kind)
            /\ h[attached[k]].isAttribute
            /\ h[attached[k]].name = name
            /\ attached[k] \notin rejected
         THEN attached[k]
         ELSE getInputBlockByPredicate(h, attached, name, rejected, k + 1)

\* input.output.connectTo(point i of node)
connectInput(h, input, node, i) == [h EXCEPT ![node].inputs[i] = [b |-> input, o |-> 1]]

\* "if (!positionInput) { new InputBlock ... }" and the connection: found is the block
\* the material returned
connectFound(c, found, node, i, name) ==
    IF found # 0
    THEN [c EXCEPT !.heap = connectInput(@, found, node, i)]
    ELSE [heap |-> connectInput(Append(c.heap, NewInputBlock(name, c.uid)),
                                Len(c.heap) + 1, node, i),
          uid |-> c.uid + 1]

\* one of the four "if (!this.<input>.isConnected)" blocks of autoConfigure
configureInput(c, attached, node, i, rejected) ==
    IF c.heap[node].inputs[i].b # 0 THEN c
    ELSE connectFound(c, getInputBlockByPredicate(c.heap, attached,
                                                   KindInputs("MorphTargetsBlock")[i],
                                                   rejected, 1),
                      node, i, KindInputs("MorphTargetsBlock")[i])

\* autoConfigure(material, additionalFilteringInfo): position, normal, tangent, uv
autoConfigure(c, attached, node, rejected) ==
    configureInput(configureInput(configureInput(configureInput(c, attached, node, 1,
        rejected), attached, node, 2, rejected), attached, node, 3, rejected),
        attached, node, 4, rejected)

MaxConfigures == 2

\* a client calls block.autoConfigure(material, filter) on a MorphTargetsBlock
AutoConfigure(node, rejected) ==
    /\ changes < MaxConfigures
    /\ node \in 1..Len(heap)
    /\ heap[node].kind = "MorphTargetsBlock"
    /\ heap' = autoConfigure([heap |-> heap, uid |-> nextUid], attachedBlocks, node,
                             rejected).heap
    /\ nextUid' = autoConfigure([heap |-> heap, uid |-> nextUid], attachedBlocks, node,
                                rejected).uid
    /\ changes' = changes + 1
    /\ lastOp' = "autoConfigure"
    /\ UNCHANGED <<vertexOutputNodes, fragmentOutputNodes, attachedBlocks, disposed, mode, buildVars,
                   serialized, idMap, lastParse, serializes, parses, mesh, isFrozen,
                   allowShaderHotSwapping, readyVars, clientVars, thrown, since>>

(***************************************************************************)
(* removeBlock, clear and dispose.  A block is known by its uniqueId: the  *)
(* heap of a material loaded without merge holds new blocks.               *)
(***************************************************************************)
\* the uniqueIds of the blocks of a list
UidsOf(h, blocks) == {h[blocks[i]].uid : i \in 1..Len(blocks)}

\* the blocks the material tracks
Tracked == UidsOf(heap, attachedBlocks)

\* removeOutputNode on the lists of g
removeOutputNode(g, node) ==
    [g EXCEPT !.vertex = IF HasVertexTarget(g.heap[node].target)
                         THEN RemoveFromList(@, node) ELSE @,
              !.fragment = IF HasFragmentTarget(g.heap[node].target)
                           THEN RemoveFromList(@, node) ELSE @]

\* removeBlock(block): the block leaves attachedBlocks, and the output lists when it
\* is a final merger
removeBlock(g, block) ==
    IF KindIsFinalMerger(g.heap[block].kind)
    THEN removeOutputNode([g EXCEPT !.attached = RemoveFromList(@, block)], block)
    ELSE [g EXCEPT !.attached = RemoveFromList(@, block)]

TrackingWrites(g) ==
    /\ attachedBlocks' = g.attached
    /\ vertexOutputNodes' = g.vertex
    /\ fragmentOutputNodes' = g.fragment

RemoveBlock(block) ==
    /\ block \in 1..Len(heap)
    /\ TrackingWrites(removeBlock(Current, block))
    /\ thrown' = "none"
    /\ lastOp' = "removeBlock"
    /\ UNCHANGED <<heap, disposed, mode, buildVars, serialVars, envVars, clientVars,
                   readyVars, since>>

\* clear(): the three lists are emptied
Clear ==
    /\ TrackingWrites([Current EXCEPT !.attached = <<>>, !.vertex = <<>>, !.fragment = <<>>])
    /\ thrown' = "none"
    /\ lastOp' = "clear"
    /\ UNCHANGED <<heap, disposed, mode, buildVars, serialVars, envVars, clientVars,
                   readyVars, since>>

\* dispose(): every tracked block is disposed, the list is emptied and the three
\* objects of the last pass are dropped
Dispose ==
    /\ disposed' = disposed \cup Tracked
    /\ attachedBlocks' = <<>>
    /\ sharedData' = NoObject
    /\ vertexState' = NoObject
    /\ fragmentState' = NoObject
    /\ thrown' = "none"
    /\ lastOp' = "dispose"
    /\ UNCHANGED <<heap, vertexOutputNodes, fragmentOutputNodes, mode, buildId,
                   BuildIdGenerator, buildWasSuccessful, nextOid, lastPass, builds,
                   serialVars, envVars, clientVars, readyVars, since>>


(***************************************************************************)
(* The graphs a behaviour starts from: five blocks, the two output blocks  *)
(* (1, 2) and three blocks of varying class (3, 4, 5), in layers: an       *)
(* output block reads blocks 3 and 4 (its second input block 5), a block   *)
(* of the middle reads the blocks after it, block 4 may read itself.       *)
(***************************************************************************)
Min(a, b) == IF a < b THEN a ELSE b

\* output.connectTo(input): port i of the consumer is linked to producer q
LinkTo(kinds, i, q) ==
    IF q = 0 THEN NoLink ELSE [b |-> q, o |-> Min(i, Len(KindOutputs(kinds[q])))]

SlotKinds ==
    {<<"VertexOutputBlock", "FragmentOutputBlock", k3, k4, k5>> :
        k3 \in {"TextureBlock", "NodeMaterialTeleportOutBlock"},
        k4 \in {"TransformBlock", "ParticleRampGradientBlock", "NodeMaterialTeleportInBlock"},
        k5 \in {"InputBlock", "ParticleRampGradientBlock"}}

\* the producers port i of block b may be linked to (0: left unconnected)
Producers(kinds, b, i) ==
    {0} \cup {q \in (IF b <= 2 THEN (IF i = 1 THEN {3, 4} ELSE {5})
                     ELSE IF b = 4 THEN {4, 5}
                     ELSE (b + 1)..5) : Len(KindOutputs(kinds[q])) > 0}

EntryPoints(kinds, b) ==
    IF KindIsTeleportOut(kinds[b])
    THEN {0} \cup {q \in (b + 1)..5 : KindIsTeleportIn(kinds[q])}
    ELSE {0}

\* the ways the inputs of block b may be linked
InputChoices(kinds, b) ==
    IF Len(KindInputs(kinds[b])) = 0 THEN {<<>>}
    ELSE IF Len(KindInputs(kinds[b])) = 1
         THEN {<<LinkTo(kinds, 1, q)>> : q \in Producers(kinds, b, 1)}
         ELSE {<<LinkTo(kinds, 1, q1), LinkTo(kinds, 2, q2)>> :
                  q1 \in Producers(kinds, b, 1), q2 \in Producers(kinds, b, 2)}

SlotBlocks(kinds, b) ==
    {[NewBlock(kinds[b], b) EXCEPT !.inputs = ins, !.entryPoint = e] :
        ins \in InputChoices(kinds, b), e \in EntryPoints(kinds, b)}

HeapsOf(kinds) ==
    {<<b1, b2, b3, b4, b5>> :
        b1 \in SlotBlocks(kinds, 1), b2 \in SlotBlocks(kinds, 2),
        b3 \in SlotBlocks(kinds, 3), b4 \in SlotBlocks(kinds, 4),
        b5 \in SlotBlocks(kinds, 5)}

InitialHeaps == UNION {HeapsOf(kinds) : kinds \in SlotKinds}

\* the mesh and the scene before the first frame
NoManager ==
    [present |-> FALSE, numInfluencers |-> 0, isUsingTextureForTargets |-> FALSE,
     supportsNormals |-> FALSE, supportsTangents |-> FALSE, supportsUVs |-> FALSE]

FirstMesh ==
    [verticesData |-> {"normal", "uv"}, useVertexColors |-> TRUE,
     cameraOrthographic |-> FALSE, texturesReady |-> FALSE, renderId |-> 1,
     morphTargetManager |-> NoManager]

\* a submesh of another material, drawn before: its defines are processed
OtherSubMesh ==
    [material |-> "other",
     materialDefines |-> [markAsProcessed(NewDefines) EXCEPT !.values.NORMAL = TRUE,
                                                             !.renderId = 1]]

\* what the constructor leaves, whatever the blocks authored beside it
Constructed ==
    /\ mode = "Material"
    /\ buildId = 0
    /\ BuildIdGenerator = 1
    /\ buildWasSuccessful = FALSE
    /\ sharedData = NoObject
    /\ vertexState = NoObject
    /\ fragmentState = NoObject
    /\ nextOid = 1
    /\ nextUid = 6
    /\ thrown = "none"
    /\ lastOp = "new"
    /\ lastPass = NoPass
    /\ serialized = NoObject
    /\ idMap = <<>>
    /\ lastParse = NoParse
    /\ builds = 0
    /\ serializes = 0
    /\ parses = 0
    /\ mesh = FirstMesh
    /\ defines = NoObject
    /\ effect = Null
    /\ effects = <<>>
    /\ drawWrapper = [wasPreviouslyReady |-> FALSE, wasPreviouslyUsingInstances |-> FALSE]
    /\ lastCheck = NoCheck
    /\ prevCheck = NoCheck
    /\ since = {}
    /\ checks = 0
    /\ changes = 0
    /\ activeEffect = Null
    /\ lastBind = NoBind
    /\ binds = 0
    /\ otherSubMesh = OtherSubMesh
    /\ wrapper = NoWrapper
    /\ ShadersStore = {}
    /\ lastApply = NoApply
    /\ peers = <<>>
    /\ optimizers = <<>>
    /\ loader = NewLoader
    /\ disposed = {}

\* a material with both output blocks added; its blocks are not tracked yet
\* (authored) or all tracked (loaded by parseSerializedObject, then linked)
Init ==
    /\ heap \in InitialHeaps
    /\ vertexOutputNodes = <<1>>
    /\ fragmentOutputNodes = <<2>>
    /\ attachedBlocks \in {<<>>, <<1, 2, 3, 4, 5>>}
    /\ isFrozen = FALSE
    /\ allowShaderHotSwapping = TRUE
    /\ Constructed

Next ==
    \E updateBuildId \in BOOLEAN : Build(updateBuildId, FALSE)

Spec == Init /\ [][Next]_vars

\* a material as constructed: no output node yet
InitPre ==
    /\ heap \in HeapsOf(<<"VertexOutputBlock", "FragmentOutputBlock", "InputBlock",
                          "InputBlock", "InputBlock">>)
    /\ vertexOutputNodes = <<>>
    /\ fragmentOutputNodes = <<>>
    /\ attachedBlocks = <<>>
    /\ isFrozen = FALSE
    /\ allowShaderHotSwapping = TRUE
    /\ Constructed

NextPre ==
    \/ \E updateBuildId \in BOOLEAN, configure \in BOOLEAN :
           Build(updateBuildId, configure)
    \/ \E node \in 1..2 : AddOutputNode(node)
    \/ \E node \in 1..2 : RemoveOutputNode(node)
    \/ \E value \in Modes : SetMode(value)

SpecPre == InitPre /\ [][NextPre]_vars

\* the graphs of the serialization round trip
NextSerial ==
    \/ Serialize
    \/ ParseSerializedObject(FALSE)

SpecSerial == Init /\ [][NextSerial]_vars

\* one graph for the checks: the vertex output reads a transform of an attribute,
\* the fragment output a texture sampled at the same attribute
GraphOf(kinds, links) ==
    [b \in 1..Len(kinds) |->
        [NewBlock(kinds[b], b) EXCEPT
            !.inputs = [i \in 1..Len(links[b]) |-> LinkTo(kinds, i, links[b][i])]]]

ReadyHeap ==
    GraphOf(<<"VertexOutputBlock", "FragmentOutputBlock", "TextureBlock", "TransformBlock",
              "InputBlock">>,
            <<<<4>>, <<3, 0>>, <<5>>, <<5>>, <<>>>>)

InitReady ==
    /\ heap = ReadyHeap
    /\ vertexOutputNodes = <<1>>
    /\ fragmentOutputNodes = <<2>>
    /\ attachedBlocks = <<>>
    /\ isFrozen \in BOOLEAN
    /\ allowShaderHotSwapping \in BOOLEAN
    /\ Constructed

NextReady ==
    \/ Build(TRUE, FALSE)
    \/ \E useInstances \in BOOLEAN, ready \in BOOLEAN : IsReadyForSubMesh(useInstances, ready)
    \/ \E kind \in ChangedKinds : SetVerticesData(kind)
    \/ \E value \in BOOLEAN : SetUseVertexColors(value)
    \/ \E orthographic \in BOOLEAN : SetCameraMode(orthographic)
    \/ TexturesLoaded
    \/ Render
    \/ \E e \in 1..Len(effects) : EffectCompiled(e)

SpecReady == InitReady /\ [][NextReady]_vars

MaxDisconnects == 2

\* connectionPoint.disconnectFrom(input): the author removes the link of an input
Disconnect(b, i) ==
    /\ changes < MaxDisconnects
    /\ i <= Len(heap[b].inputs)
    /\ heap[b].inputs[i].b # 0
    /\ heap' = [heap EXCEPT ![b].inputs[i] = NoLink]
    /\ changes' = changes + 1
    /\ lastOp' = "disconnectFrom"
    /\ UNCHANGED <<vertexOutputNodes, fragmentOutputNodes, attachedBlocks, disposed, mode, buildVars,
                   serialVars, mesh, isFrozen, allowShaderHotSwapping, readyVars,
                   clientVars, thrown, since>>

\* the graph of the checks, built, checked and edited by its author
NextErrors ==
    \/ \E updateBuildId \in BOOLEAN : Build(updateBuildId, FALSE)
    \/ \E ready \in BOOLEAN : IsReadyForSubMesh(FALSE, ready)
    \/ TexturesLoaded
    \/ \E b \in 1..5, i \in 1..2 : Disconnect(b, i)

\* a second graph: the vertex output reads the texture, which both stages then build
SharedHeap ==
    GraphOf(<<"VertexOutputBlock", "FragmentOutputBlock", "TextureBlock", "TransformBlock",
              "InputBlock">>,
            <<<<3>>, <<0, 4>>, <<5>>, <<5>>, <<>>>>)

InitErrors ==
    /\ heap \in {ReadyHeap, SharedHeap}
    /\ vertexOutputNodes = <<1>>
    /\ fragmentOutputNodes = <<2>>
    /\ attachedBlocks = <<>>
    /\ isFrozen = FALSE
    /\ allowShaderHotSwapping = TRUE
    /\ Constructed

SpecErrors == InitErrors /\ [][NextErrors]_vars

\* the modes a wrapper is created in
WrapperModes == {"PostProcess", "ProceduralTexture", "Particle"}

NextWrap ==
    \/ \E updateBuildId \in BOOLEAN : Build(updateBuildId, FALSE)
    \/ \E value \in WrapperModes : SetMode(value)
    \/ \E kind \in WrapperKinds, joined \in ParticleSystemDefines : CreateWrapper(kind, joined)
    \/ WrapperCallback

SpecWrap == InitReady /\ [][NextWrap]_vars

\* every graph, built and cloned
NextClone ==
    \/ \E updateBuildId \in BOOLEAN : lastOp # "clone" /\ Build(updateBuildId, FALSE)
    \/ \E shareEffect \in BOOLEAN : CloneMaterial(shareEffect)
    \/ CloneBuild

SpecClone == Init /\ [][NextClone]_vars

\* one graph for the draws: an input, a texture and a forced bindable block
BindHeap ==
    GraphOf(<<"VertexOutputBlock", "FragmentOutputBlock", "TextureBlock",
              "ForcedBindableBlock", "InputBlock">>,
            <<<<5>>, <<3, 4>>, <<5>>, <<>>, <<>>>>)

InitBind ==
    /\ heap = BindHeap
    /\ vertexOutputNodes = <<1>>
    /\ fragmentOutputNodes = <<2>>
    /\ attachedBlocks = <<>>
    /\ isFrozen \in BOOLEAN
    /\ allowShaderHotSwapping \in BOOLEAN
    /\ Constructed

NextBind ==
    \/ Build(TRUE, FALSE)
    \/ \E useInstances \in BOOLEAN, ready \in BOOLEAN : IsReadyForSubMesh(useInstances, ready)
    \/ TexturesLoaded
    \/ \E e \in 1..Len(effects) : EffectCompiled(e)
    \/ \E mustRebind \in BOOLEAN : BindForSubMesh(mustRebind)

SpecBind == InitBind /\ [][NextBind]_vars

\* the optimizers a client registers: each removes an output block from a list of the
\* material or appends block 3 to it
OptimizerChoices ==
    {[op |-> "remove", list |-> "vertex", block |-> 1],
     [op |-> "remove", list |-> "fragment", block |-> 2],
     [op |-> "add", list |-> "vertex", block |-> 3],
     [op |-> "add", list |-> "fragment", block |-> 3]}

NextOptimize ==
    \/ \E updateBuildId \in BOOLEAN : Build(updateBuildId, FALSE)
    \/ \E o \in OptimizerChoices : RegisterOptimizer(o)
    \/ \E o \in OptimizerChoices : UnregisterOptimizer(o)

SpecOptimize == InitErrors /\ [][NextOptimize]_vars

\* two graphs with morph targets: the vertex output reads a MorphTargetsBlock that reads
\* attributes (the fragment output a texture), or one that reads a second MorphTargetsBlock
MorphHeap ==
    GraphOf(<<"VertexOutputBlock", "FragmentOutputBlock", "MorphTargetsBlock", "TextureBlock",
              "InputBlock">>,
            <<<<3>>, <<4, 0>>, <<5, 5, 5, 5>>, <<5>>, <<>>>>)

TwoMorphHeap ==
    GraphOf(<<"VertexOutputBlock", "FragmentOutputBlock", "MorphTargetsBlock",
              "MorphTargetsBlock", "InputBlock">>,
            <<<<3>>, <<0, 0>>, <<4, 5, 5, 5>>, <<5, 5, 5, 5>>, <<>>>>)

InitMorph ==
    /\ heap \in {MorphHeap, TwoMorphHeap}
    /\ vertexOutputNodes = <<1>>
    /\ fragmentOutputNodes = <<2>>
    /\ attachedBlocks = <<>>
    /\ isFrozen = FALSE
    /\ allowShaderHotSwapping = TRUE
    /\ Constructed

MorphCounts == 1..2

NextMorph ==
    \/ Build(TRUE, FALSE)
    \/ IsReadyForSubMesh(FALSE, TRUE)
    \/ \E n \in MorphCounts, texture \in BOOLEAN : SetMorphTargets(n, texture)
    \/ TexturesLoaded
    \/ Render
    \/ BindForSubMesh(FALSE)

SpecMorph == InitMorph /\ [][NextMorph]_vars

\* the loads of the includes: builds of a graph with MorphTargetsBlocks, changes of the
\* shader language, includes that arrive and calls that resume
MaxCalls == 4

NextLoad ==
    \/ Build(TRUE, FALSE)
    \/ \E value \in ShaderLanguages : SetShaderLanguage(value)
    \/ \E dialect \in ShaderLanguages, include \in 1..LastInclude :
           ImportResolves(dialect, include)
    \/ \E i \in 1..MaxCalls : Resume(i)

SpecLoad == InitMorph /\ [][NextLoad]_vars

\* graphs for autoConfigure: a MorphTargetsBlock with any of its position, normal and uv
\* inputs connected, and two input blocks, attributes or not, by several names, attached
\* to the material or not
ConfigureHeaps ==
    {[GraphOf(<<"VertexOutputBlock", "FragmentOutputBlock", "MorphTargetsBlock",
                "InputBlock", "InputBlock">>,
              <<<<3>>, <<0, 0>>, <<p, n, 0, u>>, <<>>, <<>>>>)
         EXCEPT ![4].name = n4, ![4].isAttribute = a4, ![5].name = n5] :
        p \in {0, 4}, n \in {0, 5}, u \in {0, 4}, n4 \in {"position", "normal"},
        a4 \in BOOLEAN, n5 \in {"normal", "tangent"}}

ConfigureAttached == {<<>>, <<4, 5>>, <<5, 4>>, <<1, 3, 4>>}

InitConfigure ==
    /\ heap \in ConfigureHeaps
    /\ vertexOutputNodes = <<1>>
    /\ fragmentOutputNodes = <<2>>
    /\ attachedBlocks \in ConfigureAttached
    /\ isFrozen = FALSE
    /\ allowShaderHotSwapping = TRUE
    /\ Constructed

\* the blocks a filter refuses
Filters == {{}, {4}, {5}}

NextConfigure ==
    \/ \E rejected \in Filters : AutoConfigure(3, rejected)
    \/ \E i \in 1..4 : Disconnect(3, i)

SpecConfigure == InitConfigure /\ [][NextConfigure]_vars

\* a graph serialized, its mode changed, and the object parsed into the material, which
\* is cleared first or keeps what it holds
NextMerge ==
    \/ Serialize
    \/ \E merge \in BOOLEAN : ParseSerializedObject(merge)
    \/ \E value \in Modes : SetMode(value)

SpecMerge == Init /\ [][NextMerge]_vars

\* a material built, blocks removed one by one, the material cleared, reloaded from its
\* serialization or disposed
NextDispose ==
    \/ Build(TRUE, FALSE)
    \/ Serialize
    \/ ParseSerializedObject(FALSE)
    \/ \E block \in 1..5 : RemoveBlock(block)
    \/ Clear
    \/ Dispose

SpecDispose == InitErrors /\ [][NextDispose]_vars

\* a material built, checked and bound, and disposed at any moment
NextDisposed ==
    \/ Build(TRUE, FALSE)
    \/ \E useInstances \in BOOLEAN, ready \in BOOLEAN : IsReadyForSubMesh(useInstances, ready)
    \/ TexturesLoaded
    \/ \E mustRebind \in BOOLEAN : BindForSubMesh(mustRebind)
    \/ Dispose

SpecDisposed == InitBind /\ [][NextDisposed]_vars

\* output.connectTo(input): the author links the first output of block source to the
\* free input i of block b
Connect(b, i, source) ==
    /\ changes < MaxDisconnects
    /\ i <= Len(heap[b].inputs)
    /\ heap[b].inputs[i].b = 0
    /\ heap' = connectInput(heap, source, b, i)
    /\ changes' = changes + 1
    /\ lastOp' = "connectTo"
    /\ UNCHANGED <<vertexOutputNodes, fragmentOutputNodes, attachedBlocks, disposed, mode,
                   buildVars, serialVars, mesh, isFrozen, allowShaderHotSwapping, readyVars,
                   clientVars, thrown, since>>

\* a third graph: two blocks of a class that is unique, the fragment output reads the
\* first one
UniqueHeap ==
    GraphOf(<<"VertexOutputBlock", "FragmentOutputBlock", "ParticleRampGradientBlock",
              "ParticleRampGradientBlock", "InputBlock">>,
            <<<<5>>, <<3, 0>>, <<5>>, <<5>>, <<>>>>)

InitFailures ==
    /\ heap = UniqueHeap
    /\ vertexOutputNodes = <<1>>
    /\ fragmentOutputNodes = <<2>>
    /\ attachedBlocks = <<>>
    /\ isFrozen = FALSE
    /\ allowShaderHotSwapping = TRUE
    /\ Constructed

\* builds that raise and builds that do not: the author removes and adds links, removes
\* output nodes and blocks between two builds, and the submesh is checked
NextFailures ==
    \/ \E updateBuildId \in BOOLEAN : Build(updateBuildId, FALSE)
    \/ IsReadyForSubMesh(FALSE, TRUE)
    \/ \E b \in 1..2, i \in 1..2 : Disconnect(b, i)
    \/ \E i \in 1..2 : Connect(2, i, 4)
    \/ \E node \in 1..2 : RemoveOutputNode(node)
    \/ \E block \in 3..4 : RemoveBlock(block)

SpecFailures == InitFailures /\ [][NextFailures]_vars

\* a fourth graph: the vertex output reads a teleport-out whose entry point reads the
\* attribute the texture of the fragment output is sampled at
TeleportHeap ==
    [GraphOf(<<"VertexOutputBlock", "FragmentOutputBlock", "NodeMaterialTeleportOutBlock",
               "NodeMaterialTeleportInBlock", "InputBlock">>,
             <<<<3>>, <<0, 5>>, <<>>, <<5>>, <<>>>>) EXCEPT ![3].entryPoint = 4]

InitTracked ==
    /\ heap \in {SharedHeap, TeleportHeap}
    /\ vertexOutputNodes = <<1>>
    /\ fragmentOutputNodes = <<2>>
    /\ attachedBlocks \in {<<>>, <<1, 2, 3, 4, 5>>}
    /\ isFrozen = FALSE
    /\ allowShaderHotSwapping = TRUE
    /\ Constructed

\* a material built, serialized, loaded or merged from its serialization, with blocks
\* removed in between
NextTracked ==
    \/ Build(TRUE, FALSE)
    \/ Serialize
    \/ \E merge \in BOOLEAN : ParseSerializedObject(merge)
    \/ \E block \in 1..6 : RemoveBlock(block)

SpecTracked == InitTracked /\ [][NextTracked]_vars

\* graphs with cycles: blocks 3 and 4 each read block 3, block 4 or the attribute, so
\* that a block may read itself and the two may read each other; and a teleport-out
\* whose entry point reads it
WalkHeaps ==
    {GraphOf(<<"VertexOutputBlock", "FragmentOutputBlock", "TransformBlock",
               "TransformBlock", "InputBlock">>,
             <<<<3>>, <<4, 0>>, <<l3>>, <<l4>>, <<>>>>) : l3 \in 3..5, l4 \in 3..5}
    \cup {[GraphOf(<<"VertexOutputBlock", "FragmentOutputBlock",
                     "NodeMaterialTeleportOutBlock", "NodeMaterialTeleportInBlock",
                     "InputBlock">>,
                   <<<<3>>, <<0, 5>>, <<>>, <<l4>>, <<>>>>) EXCEPT ![3].entryPoint = 4] :
             l4 \in {3, 5}}

InitWalks ==
    /\ heap \in WalkHeaps
    /\ vertexOutputNodes = <<1>>
    /\ fragmentOutputNodes = <<2>>
    /\ attachedBlocks \in {<<>>, <<1, 2, 3, 4, 5>>}
    /\ isFrozen = FALSE
    /\ allowShaderHotSwapping = TRUE
    /\ Constructed

\* the walks of the material: build(), serialize() and parseSerializedObject()
NextWalks ==
    \/ Build(TRUE, FALSE)
    \/ Serialize
    \/ \E merge \in BOOLEAN : ParseSerializedObject(merge)

SpecWalks == InitWalks /\ [][NextWalks]_vars

(***************************************************************************)
(* The render loop: every frame the scene moves its render id on and asks  *)
(* the material whether the submesh is ready, for as long as it renders.   *)
(***************************************************************************)
\* MaterialDefines.markAsLightDirty(disposed)
markAsLightDirty(d, lightsDisposed) ==
    [d EXCEPT !.isDirty = TRUE, !.dirty = @ \cup {"lights"},
              !.areLightsDisposed = @ \/ lightsDisposed]

\* a light of the scene is disposed: the scene marks the lights of the defines of
\* its submeshes dirty and disposed
DisposeLight ==
    /\ ~IsNull(defines)
    /\ ~defines.areLightsDisposed
    /\ defines' = markAsLightDirty(defines, TRUE)
    /\ since' = since \cup {"lights"}
    /\ UNCHANGED <<graphVars, buildVars, serialVars, envVars, clientVars, effect, effects,
                   drawWrapper, lastCheck, prevCheck, checks, thrown, lastOp>>

\* the render ids a scene hands out, up to their names: only whether the id of the
\* defines is the id of the frame is ever tested
RenderIds == 1..3

\* an id that is neither the id of the frame nor the id the defines hold
FreshRenderId ==
    CHOOSE n \in RenderIds :
        n # mesh.renderId /\ (IsNull(defines) \/ n # defines.renderId)

\* the scene renders a frame of a loop that does not end: its render id is a new one
LoopRender ==
    /\ mesh' = [mesh EXCEPT !.renderId = FreshRenderId]
    /\ UNCHANGED changes
    /\ EnvironmentStep("frame")

\* a check of a loop that does not end: its checks are not counted
LoopCheck(useInstances, ready) ==
    /\ CheckWrites(isReadyForSubMesh(useInstances, ready))
    /\ prevCheck' = lastCheck
    /\ UNCHANGED checks
    /\ since' = {}
    /\ thrown' = IF lastCheck'.result = "TypeError" THEN "TypeError" ELSE "none"
    /\ lastOp' = "isReadyForSubMesh"
    /\ UNCHANGED <<graphVars, buildId, BuildIdGenerator, buildWasSuccessful, sharedData,
                   nextOid, lastPass, builds, serialVars, envVars, clientVars>>

\* some check of the loop: the engine compiles the programs it creates in the background
SomeCheck == \E useInstances \in BOOLEAN : LoopCheck(useInstances, FALSE)

\* the engine ends some compilation
SomeEffectCompiled == \E e \in 1..Len(effects) : EffectCompiled(e)

\* a material that swaps its programs while they compile, frozen or not
InitSwap ==
    /\ heap = ReadyHeap
    /\ vertexOutputNodes = <<1>>
    /\ fragmentOutputNodes = <<2>>
    /\ attachedBlocks = <<>>
    /\ isFrozen \in BOOLEAN
    /\ allowShaderHotSwapping = TRUE
    /\ Constructed

\* the material is built before the loop renders it
BuildOnce == ~buildWasSuccessful /\ Build(TRUE, FALSE)

NextSwap ==
    \/ BuildOnce
    \/ SomeCheck
    \/ SetVerticesData("tangent")
    \/ DisposeLight
    \/ TexturesLoaded
    \/ LoopRender
    \/ SomeEffectCompiled

\* the loop goes on: the scene keeps rendering frames, readiness checks keep being made,
\* and the engine ends the compilations it began
SwapFairness ==
    /\ WF_vars(LoopRender)
    /\ []<><<SomeCheck>>_vars
    /\ WF_vars(SomeEffectCompiled)

SpecSwap == InitSwap /\ [][NextSwap]_vars /\ SwapFairness

(***************************************************************************)
(* Properties.                                                             *)
(***************************************************************************)
\* the blocks a block reads: the producers of its inputs and its entry point
Successors(h, b) ==
    ({h[b].inputs[i].b : i \in 1..Len(h[b].inputs)} \ {0})
    \cup (IF KindIsTeleportOut(h[b].kind) /\ h[b].entryPoint # 0
          THEN {h[b].entryPoint} ELSE {})

\* the blocks reachable from the blocks of S
RECURSIVE ReachableFrom(_, _)
ReachableFrom(h, S) ==
    IF UNION {Successors(h, b) : b \in S} \subseteq S THEN S
    ELSE ReachableFrom(h, S \cup UNION {Successors(h, b) : b \in S})

ReachableFromVertex == ReachableFrom(heap, Range(vertexOutputNodes))
ReachableFromFragment == ReachableFrom(heap, Range(fragmentOutputNodes))

\* a step that is a call of build()
BuildStep == lastOp' = "build" /\ builds' = builds + 1

\* the shared data and the two compilation states are the objects they were
StatesUntouched ==
    /\ sharedData' = sharedData
    /\ vertexState' = vertexState
    /\ fragmentState' = fragmentState

\* C1 as stated: whenever the fragment-root list is empty, build() raises the
\* "at least one fragment output" error and leaves the shared data and the two
\* compilation states the objects they were.
C1_FragmentErrorWheneverEmpty ==
    [][BuildStep /\ Len(fragmentOutputNodes) = 0
       => thrown' = "fragmentOutputNode" /\ StatesUntouched]_vars

\* C1: with an empty fragment-root list build() raises a structural error before any
\* state object is allocated or replaced and the pass is not successful; the error is
\* the fragment one when the vertex check passes (a vertex root exists, or the mode is
\* Particle) and the vertex one otherwise, since the vertex check comes first.
C1_FragmentErrorAfterVertexCheck ==
    [][BuildStep /\ Len(fragmentOutputNodes) = 0
       => /\ StatesUntouched
          /\ ~buildWasSuccessful'
          /\ IF Len(vertexOutputNodes) # 0 \/ mode = "Particle"
             THEN thrown' = "fragmentOutputNode"
             ELSE thrown' = "vertexOutputNode"]_vars

\* a build() of a built material failed on its missing fragment root
C1_Witness ==
    /\ lastOp = "build"
    /\ Len(fragmentOutputNodes) = 0
    /\ thrown = "fragmentOutputNode"
    /\ ~IsNull(sharedData)

\* C2: build() with an empty vertex-root list raises the vertex error exactly when the
\* mode is not Particle; in Particle mode, with a fragment root, the precondition check
\* passes and the pass proceeds (it allocates its states and initializes the blocks).
C2_EmptyVertexStage ==
    [][BuildStep /\ Len(vertexOutputNodes) = 0
       => /\ thrown' = "vertexOutputNode" <=> mode # "Particle"
          /\ mode = "Particle" /\ Len(fragmentOutputNodes) # 0
             => /\ lastPass'.stage \in {"init", "build", "done"}
                /\ thrown' \notin {"vertexOutputNode", "fragmentOutputNode"}
                /\ sharedData' # sharedData]_vars

\* a Particle material with no vertex root went through a whole pass
C2_Witness ==
    /\ lastOp = "build"
    /\ mode = "Particle"
    /\ Len(vertexOutputNodes) = 0
    /\ Len(fragmentOutputNodes) # 0
    /\ lastPass.stage = "done"
    /\ buildWasSuccessful

\* two distinct blocks of one unique class are reachable from the output nodes
TwoUniqueBlocksReachable ==
    \E a, b \in ReachableFromVertex \cup ReachableFromFragment :
        a # b /\ KindIsUnique(heap[a].kind) /\ heap[a].kind = heap[b].kind

\* C3: when two distinct blocks of the same unique class are reachable from the output
\* nodes, build() raises the uniqueness error and aborts the pass: no stage is built and
\* the pass is not successful, whether the blocks were attached before the build or not.
C3_UniquenessError ==
    lastOp = "build" /\ TwoUniqueBlocksReachable
    => /\ thrown = "unique"
       /\ ~buildWasSuccessful
       /\ lastPass.stage = "init"
       /\ vertexState.compilationString = <<>>
       /\ fragmentState.compilationString = <<>>

\* the number of times block b emitted its code into the text of a stage
Emissions(st, b) ==
    Cardinality({i \in 1..Len(st.compilationString) : st.compilationString[i].block = b})

\* the output names block b emitted into the text of a stage
EmittedNames(st, b) ==
    {st.compilationString[i].names :
        i \in {j \in 1..Len(st.compilationString) : st.compilationString[j].block = b}}

\* C4: after a pass, a VertexAndFragment block reachable from both root sets has
\* emitted its code exactly once into the vertex stage and exactly once into the
\* fragment stage, with the same output variable names in both.
C4_DualBlockOncePerStage ==
    lastOp = "build" /\ lastPass.stage = "done"
    => \A b \in ReachableFromVertex \cap ReachableFromFragment :
          heap[b].target = "VertexAndFragment"
          => /\ Emissions(vertexState, b) = 1
             /\ Emissions(fragmentState, b) = 1
             /\ EmittedNames(vertexState, b) = EmittedNames(fragmentState, b)

\* C5: after the initialization step, every VertexAndFragment block reachable from a
\* root of one stage is in the list of nodes of the other stage, and every vertex-only
\* block reachable from a fragment root but from no vertex root is in the list of the
\* vertex stage; each such block is built in the stage it was not wired into.
C5_CrossStageWorklists ==
    lastOp = "build" /\ lastPass.stage = "done"
    => /\ \A b \in ReachableFromVertex :
             heap[b].target = "VertexAndFragment"
             => b \in Range(lastPass.fragmentNodes) /\ Emissions(fragmentState, b) >= 1
       /\ \A b \in ReachableFromFragment :
             heap[b].target = "VertexAndFragment"
             => b \in Range(lastPass.vertexNodes) /\ Emissions(vertexState, b) >= 1
       /\ \A b \in ReachableFromFragment \ ReachableFromVertex :
             heap[b].target = "Vertex"
             => b \in Range(lastPass.vertexNodes) /\ Emissions(vertexState, b) >= 1

\* the text and the lists of a stage are the same in the two states of a step
SameStage(st, su) ==
    /\ st.compilationString = su.compilationString
    /\ st.builtCompilationString = su.builtCompilationString
    /\ st.uniforms = su.uniforms
    /\ st.samplers = su.samplers
    /\ st.attributes = su.attributes

\* C6: a build() that follows a build() of the same graph produces the same vertex and
\* fragment text and the same uniform, sampler and attribute lists in the same order,
\* whatever the value of updateBuildId in either call.
C6_RepeatedBuildsIdentical ==
    [][BuildStep /\ lastOp = "build" /\ lastPass.stage = "done" /\ lastPass'.stage = "done"
       => /\ SameStage(vertexState, vertexState')
          /\ SameStage(fragmentState, fragmentState')]_vars

\* the blocks of the graph: those reachable from the roots and those attached
GraphBlocks ==
    ReachableFromVertex \cup ReachableFromFragment \cup Range(attachedBlocks)

\* the block parseSerializedObject made from block b (its map, after the step)
Image(b) == MapGet(idMap', heap[b].uid)

\* C7: parseSerializedObject(serialize(G)) with merge = false yields the blocks of G
\* (one new block per block, of the same class), the edges of G (every input linked to
\* the image of its producer at the same output, every other input unconnected) and
\* the vertex and fragment roots of G.
C7_RoundTrip ==
    [][lastOp = "serialize" /\ lastOp' = "parseSerializedObject"
       => /\ Len(heap') = Cardinality(GraphBlocks)
          /\ \A b \in GraphBlocks :
                /\ Image(b) \in 1..Len(heap')
                /\ heap'[Image(b)].kind = heap[b].kind
                /\ \A i \in 1..Len(heap[b].inputs) :
                      heap'[Image(b)].inputs[i] =
                          IF heap[b].inputs[i].b = 0 THEN NoLink
                          ELSE [b |-> Image(heap[b].inputs[i].b), o |-> heap[b].inputs[i].o]
          /\ \A a, b \in GraphBlocks : Image(a) = Image(b) => a = b
          /\ vertexOutputNodes' = [i \in 1..Len(vertexOutputNodes) |->
                                       Image(vertexOutputNodes[i])]
          /\ fragmentOutputNodes' = [i \in 1..Len(fragmentOutputNodes) |->
                                         Image(fragmentOutputNodes[i])]]_vars

\* the ids of the serialized blocks, in order
SerializedIds == [i \in 1..Len(serialized.blocks) |-> serialized.blocks[i].id]

\* C8: _gatherBlocks lists every block reachable from the roots exactly once, and
\* serialize() writes every reachable or attached block exactly once into blocks and
\* every root id exactly once into outputNodes.
C8_GatherOnce ==
    lastOp = "serialize"
    => /\ NoDup(GatheredBlocks)
       /\ Range(GatheredBlocks) = ReachableFromVertex \cup ReachableFromFragment
       /\ NoDup(SerializedIds)
       /\ Range(SerializedIds) = {heap[b].uid : b \in GraphBlocks}
       /\ NoDup(serialized.outputNodes)
       /\ Range(serialized.outputNodes) =
              {heap[b].uid : b \in Range(vertexOutputNodes) \cup Range(fragmentOutputNodes)}

\* a serialized graph whose fragment output reads block 5 through an input and
\* through the entry point of a teleport-out
C8_Witness ==
    /\ lastOp = "serialize"
    /\ heap[2].inputs[1].b = 3
    /\ heap[2].inputs[2].b = 5
    /\ KindIsTeleportOut(heap[3].kind)
    /\ heap[3].entryPoint = 4
    /\ heap[4].inputs[1].b = 5
    /\ Len(serialized.blocks) = 5

\* between the check before and this check neither the capabilities changed nor
\* the graph was built again
SameCapabilities(c) == c.since \cap {"capability", "build"} = {}

\* the check installed a program that was ready
InstalledReady(c) == c.installed /\ c.returned

ObservesOneChange(c) == c.attributesChanged = 1

AfterCheck == lastOp = "isReadyForSubMesh"

\* the effect the engine holds for the defines and the stage text of the submesh
ObtainedEffect ==
    FindEffect(effects, [defines |-> defines.values,
                         vertexSource |-> vertexState.compilationString,
                         fragmentSource |-> fragmentState.compilationString])

\* the check re-specialized and the program it obtained is not ready
ObtainedPending ==
    /\ AfterCheck
    /\ lastCheck.created
    /\ ObtainedEffect # 0
    /\ ~EffectIsReady(effects, ObtainedEffect)

\* the check ran with hot swap enabled and a previous effect on the submesh
HotSwapApplies == allowShaderHotSwapping /\ lastCheck.effectBefore # Null

\* the check went as far as _processDefines
ReachedProcessDefines(c) == c.result \in {"pending", "ready", "lightDisposed"}

\* C11, the check itself: the previous effect is kept and the defines are unprocessed,
\* or the new effect is installed and the check returns false.
C11_ThisCheck ==
    ObtainedPending
    => IF HotSwapApplies
       THEN effect = lastCheck.effectBefore /\ defines.isDirty /\ lastCheck.hotSwapped
       ELSE effect = ObtainedEffect /\ lastCheck.installed /\ ~lastCheck.returned

\* C11, the check after a hot swap re-specializes again (when it is not answered
\* by the render id of the defines or by the frozen shortcut, nor held by a block)
C11_NextAfterHotSwap ==
    AfterCheck /\ checks >= 2 /\ prevCheck.hotSwapped /\ ReachedProcessDefines(lastCheck)
    => lastCheck.respliced

\* C11, a check made while the installed effect is not ready returns false
C11_FalseUntilReady ==
    /\ AfterCheck
    /\ checks >= 2
    /\ prevCheck.installed
    /\ ~prevCheck.returned
    /\ effect = prevCheck.effectAfter
    /\ ~EffectIsReady(effects, effect)
    => ~lastCheck.returned

\* C11: a check that re-specializes and obtains a program that is not ready keeps the
\* previous effect and leaves the defines unprocessed when hot swap is enabled and the
\* submesh has an effect, so that the next check re-specializes again; otherwise it
\* installs the new effect, and every check returns false until that effect is ready.
C11_HotSwap == C11_ThisCheck /\ C11_NextAfterHotSwap /\ C11_FalseUntilReady

\* the state is the one a draw of a submesh with an effect left
AfterBind == lastOp = "bindForSubMesh" /\ lastBind.bound

\* the place of a call in the order inputs, bindable blocks, forced bindable blocks
CallRank(call) ==
    IF call.op \in {"_transmitWorld", "_transmit"} THEN 1
    ELSE IF call.block \in Range(sharedData.forcedBindableBlocks) THEN 3
    ELSE 2

\* C12: in every draw that binds values for the active program, the values of all input
\* blocks are pushed first, then every bindable block is bound, then every forced bindable
\* block: no block is bound before the last input value was transmitted, and no forced
\* bindable block before the last bindable block.
C12_BindingOrder ==
    AfterBind
    => \A i, j \in 1..Len(lastBind.calls) :
           i < j => CallRank(lastBind.calls[i]) <= CallRank(lastBind.calls[j])

\* how many times the draw called bind on the block
BindCalls(block) == Count(lastBind.calls, [op |-> "bind", block |-> block])

\* C13: every draw of a submesh that has an effect binds every forced bindable block
\* exactly once, also when no rebind is needed and also when the material is frozen.
C13_ForcedBindableEveryDraw ==
    AfterBind
    => \A block \in Range(sharedData.forcedBindableBlocks) : BindCalls(block) = 1

\* the state is the one a successful build() left
AfterSuccessfulBuild == lastOp = "build" /\ buildWasSuccessful

\* every dirty category of the defines is raised and every value is the default
Wiped(d) == d.isDirty /\ d.dirty = DirtyCategories /\ d.values = DefaultValues

C14_ThisMaterialWiped == AfterSuccessfulBuild /\ ~IsNull(defines) => Wiped(defines)

\* the readiness check that follows a build and had a program of the previous pass
\* answers true only after it specialized the new stage text
C14_NextCheckRespecializes ==
    /\ AfterCheck /\ "build" \in lastCheck.since /\ buildWasSuccessful
    /\ lastCheck.effectBefore # Null /\ lastCheck.returned
    => lastCheck.respliced

\* C14: after every successful build() the defines of each submesh that draws with this
\* material are all dirty and reset, so that the next readiness check of the submesh
\* re-specializes and does not keep the program of the previous pass; the defines of a
\* submesh of another material are never changed.
C14_BuildWipesDefines ==
    /\ [](C14_ThisMaterialWiped /\ C14_NextCheckRespecializes)
    /\ [][otherSubMesh' = otherSubMesh]_vars

\* the state is the one left by a build() whose shared data recorded errors
AfterBuildWithErrors ==
    lastOp = "build" /\ lastPass.stage = "done" /\ sharedData.errors # <<>>

\* the unconnected inputs of the blocks the two stages read that must be connected
UnconnectedInputs ==
    {[block |-> b, input |-> i] :
        <<b, i>> \in {<<b, i>> \in (ReachableFromVertex \cup ReachableFromFragment) \X (1..4) :
                         /\ i <= Len(heap[b].inputs)
                         /\ heap[b].inputs[i].b = 0
                         /\ ~KindInputIsOptional(heap[b].kind, i)}}

\* both stages were built to their end and finalized, every error is in the one batch
\* that was thrown, and the pass is not successful and was not announced
C15_PassWithErrors ==
    AfterBuildWithErrors
    => /\ vertexState.finalized /\ fragmentState.finalized
       /\ UnconnectedInputs \subseteq Range(sharedData.errors)
       /\ thrown = "errors"
       /\ ~buildWasSuccessful
       /\ ~lastPass.notified

\* C15: the errors recorded in the shared build data do not stop the pass: both stages
\* are built and finalized, the errors are thrown together as one batch, and a pass with
\* errors is never successful: no build notification, the defines of the submesh are not
\* wiped, and isReadyForSubMesh returns false.
C15_ErrorsAreBatched ==
    /\ [](C15_PassWithErrors)
    /\ [][BuildStep /\ thrown' = "errors" => defines' = defines]_vars
    /\ [](AfterCheck /\ ~IsNull(sharedData) /\ sharedData.errors # <<>> => ~lastCheck.returned)


\* every blocking block of the last pass reports ready for the mesh
BlockingBlocksReady == sharedData.blockingBlocks = <<>> \/ mesh.texturesReady

\* C16: isReadyForSubMesh returns true only when the last build pass was successful,
\* every blocking block is ready and the effect of the submesh exists and is ready; when
\* a blocking block is not ready or the effect is missing or not ready it returns false.
C16_ReadyOnlyWhenAllReady ==
    AfterCheck /\ lastCheck.returned
    => /\ buildWasSuccessful
       /\ BlockingBlocksReady
       /\ effect # Null
       /\ EffectIsReady(effects, effect)

\* the state is the one a callback of the wrapper left
AfterCallback == lastOp = "callback"

\* the entries of the store under a name
EntriesOf(store, name) == {e \in store : e[1] = name}

\* the first callback after the buildId of the material changed
C17_AfterChange ==
    AfterCallback /\ lastApply.changed
    => /\ lastApply.nameBefore # wrapper.tempName
       /\ EntriesOf(lastApply.storeBefore, lastApply.nameBefore) # {}
       /\ EntriesOf(ShadersStore, lastApply.nameBefore) = {}
       /\ lastApply.registered
       /\ wrapper.tempName = TempName(wrapper.kind, buildId)
       /\ EntriesOf(ShadersStore, wrapper.tempName) # {}
       /\ wrapper.buildId = buildId

\* a callback that found the buildId unchanged and the defines not dirty
C17_Unchanged ==
    AfterCallback /\ ~lastApply.changed /\ ~lastApply.dirtyBefore
    => ~lastApply.registered /\ ShadersStore = lastApply.storeBefore

\* C17: for a post process, a procedural texture or a particle effect created from the
\* material, the first callback after the buildId of the material changed deletes the
\* shader-store entries of the old name, marks the defines of the wrapper dirty,
\* registers the program under the name of the new buildId and remembers that buildId;
\* while the buildId is unchanged and the defines are not dirty nothing is registered.
C17_WrapperFollowsBuildId == C17_AfterChange /\ C17_Unchanged

\* the clone was built: clone() returned
CloneReturned == peers # <<>> /\ lastOp = "build"

\* the material and the one it was cloned from hold the same buildId
SharesBuildId(peer) == peer.buildId = buildId

C18_SameIdSameGraph ==
    \A i \in 1..Len(peers) :
        CloneReturned /\ SharesBuildId(peers[i]) /\ peers[i].built
        => CompiledGraph(heap, vertexState, fragmentState) = peers[i].compiled

\* C18: the buildId of a material never decreases, a build(updateBuildId = true) that
\* completes its stages gives it an id greater than every id issued before, and two
\* materials that hold the same id (a material and its clone) compiled the same graph.
C18_BuildIdIdentifiesArtifact ==
    /\ [][buildId' >= buildId]_vars
    /\ [][BuildStep /\ lastPass'.updateBuildId /\ lastPass'.stage = "done"
          => buildId' > buildId /\ buildId' = BuildIdGenerator]_vars
    /\ [](buildId < BuildIdGenerator)
    /\ [](C18_SameIdSameGraph)

\* the state is the one left by a build() that walked the graph
AfterWalks == lastOp = "build" /\ lastPass.stage \in {"init", "build", "done"}

\* how often the walk of a stage called initialize() on the block
InitializeCalls(b, stage) == Count(lastPass.inits, [node |-> b, stage |-> stage])

\* C19: within one build pass the initialize walk and the reset walk of the dual blocks
\* do not revisit a block: initialize() is called on a block at most once by the walk of
\* each stage, and a dual block is reset at most once, also when it is reachable along
\* several paths.
C19_WalksGuarded ==
    AfterWalks
    => \A b \in 1..Len(heap) :
           /\ InitializeCalls(b, "Vertex") <= 1
           /\ InitializeCalls(b, "Fragment") <= 1
           /\ IsDualBlock(heap[b]) => Count(lastPass.resets, b) <= 1

\* the blocks the walk of a stage called initialize() on
InitializedBlocks(stage) == {e.node : e \in {x \in Range(lastPass.inits) : x.stage = stage}}

\* the state is the one left by a build() whose walks all returned
AfterCompleteWalks == lastOp = "build" /\ lastPass.stage \in {"build", "done"}

\* no connected input reads the block: a walk reaches it through a teleport link only
OnlyTeleported(h, b) ==
    \A c \in DOMAIN h : \A i \in DOMAIN h[c].inputs : h[c].inputs[i].b # b

\* C20: every walk follows the entry point of a teleport-out like a connected input: after
\* a build() whose walks returned, the blocks the initialize walk of a stage initialized,
\* the blocks the reset walk visited and the blocks serialize() gathers are each the
\* closure of the roots of the walk under "producer of a connected input" and "entry point
\* of a teleport-out".
C20_WalksCoverClosure ==
    /\ AfterCompleteWalks
       => /\ InitializedBlocks("Vertex") = ReachableFromVertex
          /\ InitializedBlocks("Fragment") = ReachableFromFragment
          /\ Range(lastPass.resets) = ReachableFrom(heap, Range(lastPass.fragmentNodes))
    /\ Range(GatheredBlocks) = ReachableFromVertex \cup ReachableFromFragment

\* a teleport-in that only the link of teleport-out 3 leads to was initialized, reset and
\* gathered
C20_Witness ==
    /\ AfterCompleteWalks
    /\ KindIsTeleportOut(heap[3].kind) /\ heap[3].entryPoint = 4
    /\ OnlyTeleported(heap, 4)
    /\ 3 \in ReachableFromFragment
    /\ 4 \in InitializedBlocks("Fragment")
    /\ 4 \in Range(lastPass.resets)
    /\ 4 \in Range(GatheredBlocks)

\* the state is the one left by a build() that built its two stages
AfterStages == lastOp = "build" /\ lastPass.stage = "done"

\* every registered optimizer was called, in the order of registration, by a pass that
\* initialized its blocks
C21_OptimizersCalled == AfterCompleteWalks => lastPass.optimized = optimizers

\* C21: the roots a pass builds are the root lists as the optimizers rewrote them: a block
\* an optimizer removed from a list of the material is not built as a root of that stage
\* in the pass, and a block it added is.
C21_OptimizedRootsBuilt ==
    [][BuildStep /\ lastPass'.stage = "done"
       => /\ lastPass'.optimized = optimizers
          /\ \A b \in Range(vertexOutputNodes) \ Range(vertexOutputNodes') :
                 b \notin Range(lastPass'.vertexNodes)
          /\ \A b \in Range(fragmentOutputNodes) \ Range(fragmentOutputNodes') :
                 b \notin Range(lastPass'.fragmentNodes)
          /\ \A b \in Range(vertexOutputNodes') \ Range(vertexOutputNodes) :
                 b \in Range(lastPass'.vertexNodes)
          /\ \A b \in Range(fragmentOutputNodes') \ Range(fragmentOutputNodes) :
                 b \in Range(lastPass'.fragmentNodes)]_vars

\* the positions of the log of the last pass that hold a step of the kind
StepsOf(ev) == {i \in DOMAIN lastPass.log : lastPass.log[i].ev = ev}
StageStepsOf(ev, stage) == {i \in StepsOf(ev) : lastPass.log[i].stage = stage}

\* every step of A comes before every step of B
Before(A, B) == \A i \in A, j \in B : i < j

\* list a is the beginning of list b
IsPrefix(a, b) == Len(a) <= Len(b) /\ SubSeq(b, 1, Len(a)) = a

\* C22: inside build() no block is built before the initialization walks are over, every
\* node of the vertex list is built before any node of the fragment list, the uniform
\* list of the fragment state starts as the list of the vertex state as the vertex stage
\* left it (every vertex uniform, in order, at its beginning) and the two states are
\* finalized after the fragment stage only.
C22_StageOrdering ==
    AfterStages
    => /\ Before(StepsOf("initialize"), StepsOf("build") \cup StepsOf("_buildBlock"))
       /\ Before(StageStepsOf("build", "Vertex") \cup StageStepsOf("_buildBlock", "Vertex"),
                 StageStepsOf("build", "Fragment") \cup StageStepsOf("_buildBlock", "Fragment"))
       /\ {lastPass.log[i].node : i \in StageStepsOf("build", "Vertex")}
              = Range(lastPass.vertexNodes)
       /\ {lastPass.log[i].node : i \in StageStepsOf("build", "Fragment")}
              = Range(lastPass.fragmentNodes)
       /\ Before(StageStepsOf("_buildBlock", "Vertex"), StepsOf("uniforms"))
       /\ Before(StepsOf("uniforms"), StageStepsOf("_buildBlock", "Fragment"))
       /\ \A i \in StepsOf("uniforms") : lastPass.log[i].node = Len(vertexState.uniforms)
       /\ IsPrefix(vertexState.uniforms, fragmentState.uniforms)
       /\ Cardinality(StepsOf("finalize")) = 2
       /\ Before(StepsOf("build") \cup StepsOf("_buildBlock"), StepsOf("finalize"))
       /\ vertexState.finalized /\ fragmentState.finalized

\* a pass that built blocks in both stages, the vertex stage declaring a uniform
C22_Witness ==
    /\ AfterStages
    /\ StageStepsOf("_buildBlock", "Vertex") # {}
    /\ StageStepsOf("_buildBlock", "Fragment") # {}
    /\ vertexState.uniforms # <<>>
    /\ Len(fragmentState.uniforms) > Len(vertexState.uniforms)

\* the identities of the shared data and the two compilation states of the material
StateObjects == {sharedData.oid, vertexState.oid, fragmentState.oid}

\* C23: a build() that passes the precondition checks leaves the material with one shared
\* data object that both compilation states reference, and that object and the two states
\* are new objects: none of them is an object the material held before the call, so the
\* material no longer references the objects of the pass before.
C23_FreshStatesPerPass ==
    [][BuildStep /\ lastPass'.stage # "precondition"
       => /\ ~IsNull(sharedData') /\ ~IsNull(vertexState') /\ ~IsNull(fragmentState')
          /\ vertexState'.sharedData = sharedData'.oid
          /\ fragmentState'.sharedData = sharedData'.oid
          /\ Cardinality(StateObjects') = 3
          /\ StateObjects' \cap StateObjects = {}]_vars

\* a second pass went through the precondition checks: the material holds the objects of
\* that pass, allocated after those of the first
C23_Witness ==
    /\ lastOp = "build" /\ lastPass.stage # "precondition"
    /\ builds >= 2
    /\ sharedData.oid > 3 /\ vertexState.sharedData = sharedData.oid

\* the entries of list that other does not hold, in their order
RECURSIVE Without(_, _)
Without(list, other) ==
    IF list = <<>> THEN <<>>
    ELSE IF \E j \in 1..Len(other) : other[j] = Head(list)
         THEN Without(Tail(list), other)
         ELSE <<Head(list)>> \o Without(Tail(list), other)

\* a readiness check that re-specialized the program
Respecialized == lastOp' = "isReadyForSubMesh" /\ checks' = checks + 1 /\ lastCheck'.respliced

\* C24: the uniform list and the sampler list a re-specialization hands to the backend are
\* the entries of the vertex state in their order followed by the entries of the fragment
\* state that the vertex list does not hold, in their order, and no list holds a name
\* twice.
C24_MergedListsDeduplicated ==
    [][Respecialized
       => /\ vertexState'.uniforms
                 = vertexState.uniforms \o Without(fragmentState.uniforms, vertexState.uniforms)
          /\ vertexState'.samplers
                 = vertexState.samplers \o Without(fragmentState.samplers, vertexState.samplers)
          /\ NoDup(vertexState'.uniforms)
          /\ NoDup(vertexState'.samplers)]_vars

\* both compilation states are finalized
Finalized ==
    /\ ~IsNull(vertexState) /\ ~IsNull(fragmentState)
    /\ vertexState.finalized /\ fragmentState.finalized

\* C25: the text of a finalized compilation state does not change before the next build
\* pass: no step that is not a build() (readiness check, re-specialization, bind, change
\* of the mesh, frame) changes the text of the vertex stage or of the fragment stage.
C25_TextImmutableUntilBuild ==
    [][Finalized /\ ~BuildStep
       => /\ StageSource(vertexState') = StageSource(vertexState)
          /\ StageSource(fragmentState') = StageSource(fragmentState)]_vars

\* the names of the attributes of the morph targets
MorphAttributes == {"position", "normal", "tangent", "uv_"}

\* C26: the attribute list of the vertex state stays de-duplicated under re-specialization:
\* whatever checks ran on a graph with a MorphTargetsBlock, the list holds no name twice
\* and the morph attributes it holds are those of the influencers of the latest
\* specialization.
C26_AttributesDeduplicated ==
    ~IsNull(vertexState) /\ ~IsNull(defines)
    => /\ NoDup(vertexState.attributes)
       /\ \A i \in 1..Len(vertexState.attributes) :
              vertexState.attributes[i].n \in MorphAttributes
              => vertexState.attributes[i].b < defines.values.NUM_MORPH_INFLUENCERS

\* the lines of a text that are position statements, in their order
RECURSIVE PositionLines(_)
PositionLines(text) ==
    IF text = <<>> THEN <<>>
    ELSE IF Head(text).s = "position" THEN <<Head(text)>> \o PositionLines(Tail(text))
    ELSE PositionLines(Tail(text))

\* the number of lines s of a text
CountLines(text, s) == Cardinality({i \in 1..Len(text) : text[i].s = s})

\* a re-specialization for a mesh whose morph targets are not in a texture
UnrolledStep ==
    /\ Respecialized
    /\ ~(mesh.morphTargetManager.present /\ mesh.morphTargetManager.isUsingTextureForTargets)
    /\ sharedData.repeatableContentBlocks # <<>>

\* C28: when the morph targets of the mesh are not in a texture, replaceRepeatableContent
\* puts in the place of the anchor of the block exactly NUM_MORPH_INFLUENCERS position
\* statements, of the influencers 0..N-1 in increasing order (none when N = 0), inside one
\* MORPHTARGETS conditional that opens and closes the injected text; afterwards no anchor
\* is left in the vertex text and the fragment text is what it was.
C28_UnrolledPerInfluencer ==
    [][UnrolledStep
       => /\ \A i \in 1..Len(vertexState'.repeatable) :
                 /\ vertexState'.repeatable[i].content.spliced
                 /\ PositionLines(vertexState'.repeatable[i].content.text)
                        = [k \in 1..defines'.values.NUM_MORPH_INFLUENCERS |->
                               Line("position", k - 1)]
                 /\ Head(vertexState'.repeatable[i].content.text)
                        = Line("#ifdef MORPHTARGETS", NoIndex)
                 /\ vertexState'.repeatable[i].content.text[
                        Len(vertexState'.repeatable[i].content.text)]
                        = Line("#endif", NoIndex)
                 /\ CountLines(vertexState'.repeatable[i].content.text,
                               "#ifdef MORPHTARGETS") = 1
          /\ vertexState'.compilationString = vertexState.compilationString
          /\ Len(vertexState'.repeatable) = Len(sharedData.repeatableContentBlocks)
          /\ StageSource(fragmentState') = StageSource(fragmentState)]_vars

\* a re-specialization unrolled two influencers at the anchor of a MorphTargetsBlock
C28_Witness ==
    /\ lastOp = "isReadyForSubMesh" /\ lastCheck.respliced
    /\ ~mesh.morphTargetManager.isUsingTextureForTargets
    /\ defines.values.NUM_MORPH_INFLUENCERS = 2
    /\ vertexState.repeatable # <<>>
    /\ PositionLines(vertexState.repeatable[1].content.text)
           = <<Line("position", 0), Line("position", 1)>>

\* the blocks a build pass initialized whose class loads includes
LoadingBlocks(pass) ==
    {pass.log[i].node : i \in {j \in 1..Len(pass.log) :
         pass.log[j].ev = "initialize" /\ KindIsRepeatable(heap[pass.log[j].node].kind)}}

\* the pending calls of block b, and the latest call made for it
CallsOf(b) == {i \in 1..Len(loader.calls) : loader.calls[i].block = b}
IsLatestCall(i) ==
    \A j \in CallsOf(loader.calls[i].block) : loader.calls[j].id <= loader.calls[i].id

\* the flag is down from the call of initialize() on
C27_DownFromInitialize ==
    [][BuildStep => LoadingBlocks(lastPass') \subseteq loader'.notReady]_vars

\* the flag goes up only when every include of the language of the call that raises it is
\* loaded, and the observers are notified with the flag up
C27_UpAfterIncludes ==
    [][\A i \in 1..Len(loader.calls) :
           loader.calls[i].block \in loader.notReady
           /\ loader.calls[i].block \notin loader'.notReady
           /\ Len(loader'.calls) < Len(loader.calls)
           /\ MayResume(loader, i) /\ loader.calls[i].awaits = LastInclude
           /\ loader' = codeIsReady(loader, i)
           => /\ \A include \in 1..LastInclude :
                     <<loader.calls[i].dialect, include>> \in loader'.modules
              /\ Len(loader'.notified) = Len(loader.notified) + 1
              /\ loader'.notified[Len(loader'.notified)].block = loader.calls[i].block
              /\ loader'.notified[Len(loader'.notified)].ready]_vars

\* an include call i asked for, or will ask for, is not loaded
LoadsPending(i) ==
    \E include \in loader.calls[i].awaits..LastInclude :
        <<loader.calls[i].dialect, include>> \notin loader.modules

\* the flag of a block is down as long as an include of the latest initialize() call made
\* for it is not loaded
C27_DownWhileLatestPending ==
    \A i \in 1..Len(loader.calls) :
        IsLatestCall(i) /\ LoadsPending(i) => loader.calls[i].block \in loader.notReady

\* C27: the load of the includes of a MorphTargetsBlock is gated by the ready flag of the
\* block: the flag is false from the call of initialize(), it becomes true only after
\* every include of the requested shader language has loaded, the observable fires after
\* the flag is set, and when initialize() calls overlap the flag is never true while the
\* loads of the most recent call are pending.
C27_ReadyFlagGatesLoad ==
    /\ C27_DownFromInitialize
    /\ C27_UpAfterIncludes
    /\ []C27_DownWhileLatestPending

\* a call of autoConfigure on the MorphTargetsBlock
ConfigureStep == lastOp' = "autoConfigure" /\ changes' = changes + 1

\* the MorphTargetsBlocks of the graph
MorphBlocks == {b \in 1..Len(heap) : heap[b].kind = "MorphTargetsBlock"}

\* the attached blocks autoConfigure may take for input i under a filter: the attribute
\* input blocks by the name of the input that the filter accepts
Candidates(i, rejected) ==
    {b \in Range(attachedBlocks) :
        /\ KindIsInput(heap[b].kind) /\ heap[b].isAttribute
        /\ heap[b].name = KindInputs("MorphTargetsBlock")[i]
        /\ b \notin rejected}

\* the inputs of block m that are not connected, and those of them no attached block can
\* serve
Unconnected(m) == {i \in 1..4 : heap[m].inputs[i].b = 0}
Unserved(m, rejected) == {i \in Unconnected(m) : Candidates(i, rejected) = {}}

ParseStep == lastOp' = "parseSerializedObject" /\ parses' = parses + 1
ParseSteps(ev) == {i \in DOMAIN lastParse'.log : lastParse'.log[i].ev = ev}
ParsedBlocks == {idMap'[j].block : j \in DOMAIN idMap'}

\* the blocks the call created for the teleport-outs that the source gives an entry point
PendingTeleports ==
    {idMap'[j].block : j \in {l \in DOMAIN idMap' :
         /\ KindIsTeleportOut(serialized.blocks[l].customType)
         /\ serialized.blocks[l].entryPoint # Null}}

\* C30: in parseSerializedObject every teleport-out that carries a pending entry point id
\* is attached to its teleport-in before any connection is restored; without merge the
\* restoration starts at the parsed blocks that have no input and with merge at every
\* parsed block; no input is connected twice, and none that was connected before the
\* call; without merge the roots and the attached blocks of the material are those of
\* the source only and the mode is the mode of the source, with merge the material keeps
\* its blocks, its roots, its attached blocks and its mode.
C30_ReconnectionOrder ==
    [][ParseStep
       => /\ Before(ParseSteps("attachToEndpoint"),
                    ParseSteps("_restoreConnections") \cup ParseSteps("connectTo"))
          /\ {lastParse'.log[i].node : i \in ParseSteps("attachToEndpoint")}
                 = PendingTeleports
          /\ \A b \in PendingTeleports :
                 /\ KindIsTeleportIn(heap'[heap'[b].entryPoint].kind)
                 /\ heap'[b].entryPoint \in ParsedBlocks
                 /\ heap'[b].tempEntryPointUniqueId = Null
          /\ {lastParse'.log[i].node : i \in ParseSteps("_restoreConnections")}
                 = IF lastParse'.merge THEN ParsedBlocks
                   ELSE {b \in ParsedBlocks : Len(heap'[b].inputs) = 0}
          /\ \A i, j \in ParseSteps("connectTo") :
                 /\ lastParse'.log[i].node = lastParse'.log[j].node
                 /\ lastParse'.log[i].stage = lastParse'.log[j].stage
                 => i = j
          /\ \A i \in ParseSteps("connectTo") : lastParse'.log[i].node \in ParsedBlocks
          /\ IF lastParse'.merge
             THEN /\ mode' = mode
                  /\ IsPrefix(attachedBlocks, attachedBlocks')
                  /\ IsPrefix(vertexOutputNodes, vertexOutputNodes')
                  /\ IsPrefix(fragmentOutputNodes, fragmentOutputNodes')
                  /\ ParsedBlocks = (Len(heap) + 1)..Len(heap')
                  /\ \A b \in 1..Len(heap) : heap'[b] = heap[b]
             ELSE /\ mode' = serialized.mode
                  /\ Range(attachedBlocks') = ParsedBlocks
                  /\ Range(vertexOutputNodes') \cup Range(fragmentOutputNodes')
                         \subseteq ParsedBlocks
                  /\ \A b \in ParsedBlocks : heap'[b].uid >= nextUid]_vars

\* a source with a teleport pair and connections was merged into a material in another
\* mode: the call attached the teleport-out, restored connections and kept the mode
C30_Witness ==
    /\ lastOp = "parseSerializedObject"
    /\ lastParse.merge
    /\ \E i \in DOMAIN lastParse.log : lastParse.log[i].ev = "attachToEndpoint"
    /\ \E i \in DOMAIN lastParse.log : lastParse.log[i].ev = "connectTo"
    /\ mode # serialized.mode
    /\ Len(attachedBlocks) > Len(idMap)

\* C31: a block never stops being tracked by the material without being disposed: in
\* every step of removeBlock, clear, parseSerializedObject (without merge) and dispose,
\* each block that was in attachedBlocks and no longer is has had dispose() called on it.
C31_RemovedBlocksDisposed ==
    [][\A u \in Tracked : u \notin Tracked' => u \in disposed']_vars

\* what dispose() does for the blocks it drops holds for that call alone
C31_DisposeDisposes ==
    [][lastOp' = "dispose" => \A u \in Tracked : u \notin Tracked' => u \in disposed']_vars

\* the text of a stage as build() froze it: no anchor holds content
Pristine(st) ==
    /\ st.compilationString = st.builtCompilationString
    /\ \A i \in 1..Len(st.repeatable) : ~st.repeatable[i].content.spliced

\* the text of the vertex stage specialized for mesh m under defines d, from the built
\* text alone: every anchor holds the code injected for m and d
SpecializedFor(st, m, d) ==
    /\ st.compilationString = st.builtCompilationString
    /\ \A i \in 1..Len(st.repeatable) :
           st.repeatable[i].content = InjectionCode(MorphCase(m, d))

\* C32: re-specialization is history-independent: no step but a build changes the built
\* text of a stage, and after every dirty _processDefines run the fragment text is the
\* built text and the vertex text is the built text with, at every anchor, the code of the
\* mesh and the defines of that run, whatever specializations ran before.
C32_HistoryIndependent ==
    [][/\ (Finalized /\ ~BuildStep)
          => /\ vertexState'.builtCompilationString = vertexState.builtCompilationString
             /\ fragmentState'.builtCompilationString
                    = fragmentState.builtCompilationString
       /\ Respecialized
          => /\ SpecializedFor(vertexState', mesh', defines')
             /\ Pristine(fragmentState')]_vars

\* a second re-specialization replaced the text of an earlier one, for two influencers
C32_Witness ==
    /\ lastOp = "isReadyForSubMesh"
    /\ lastCheck.respliced /\ lastCheck.textChanged
    /\ checks >= 2
    /\ vertexState.repeatable # <<>>
    /\ ~Pristine(vertexState)
    /\ defines.values.NUM_MORPH_INFLUENCERS = 2
    /\ SpecializedFor(vertexState, mesh, defines)

\* the uniform and sampler lists of a compilation state
ResourceLists(st) == <<st.uniforms, st.samplers>>

\* C33: specialization does not change the resource lists of the compiled graph: no step
\* but a build (readiness check, _processDefines run of a wrapper, bind) changes the
\* uniform list or the sampler list of the vertex state or of the fragment state.
C33_ListsUnchangedBySpecialization ==
    [][Finalized /\ ~BuildStep
       => /\ ResourceLists(vertexState') = ResourceLists(vertexState)
          /\ ResourceLists(fragmentState') = ResourceLists(fragmentState)]_vars

\* the lists of the fragment state are left alone by every step but a build
C33_FragmentListsUnchanged ==
    [][Finalized /\ ~BuildStep
       => ResourceLists(fragmentState') = ResourceLists(fragmentState)]_vars

\* the objects of the last pass are there
StatesPresent == ~IsNull(sharedData) /\ ~IsNull(vertexState) /\ ~IsNull(fragmentState)

\* C34: in every state reached by build, dispose, isReadyForSubMesh and bindForSubMesh,
\* whenever the build-was-successful flag is true the shared data and both compilation
\* states are present, so that no readiness check and no bind reads a missing shared data.
C34_SuccessImpliesStates ==
    /\ buildWasSuccessful => StatesPresent
    /\ thrown # "TypeError"

\* as long as dispose() is not called the flag does imply the three objects
C34_UntilDisposed ==
    (\A u \in UidsOf(heap, <<1, 2, 3, 4, 5>>) : u \notin disposed)
    => /\ buildWasSuccessful => StatesPresent
       /\ thrown # "TypeError"

\* a step that is a call of isReadyForSubMesh()
CheckStep == lastOp' = "isReadyForSubMesh" /\ checks' = checks + 1

\* C35: a build() that raises leaves the material not ready, whatever an earlier pass did:
\* after a build the success flag is true exactly when the pass did not raise, no other
\* call sets it, and while it is false every isReadyForSubMesh returns false.
C35_FailedBuildNotReady ==
    [][/\ BuildStep => (buildWasSuccessful' <=> thrown' = "none")
       /\ ~BuildStep => buildWasSuccessful' = buildWasSuccessful
       /\ (CheckStep /\ ~buildWasSuccessful)
          => ~lastCheck'.returned /\ lastCheck'.result = "notBuilt"]_vars

\* a build succeeded, the next one raised and the check that followed returned false
C35_Witness ==
    /\ builds = 2
    /\ lastPass.stage # "none" /\ ~lastPass.notified
    /\ ~buildWasSuccessful
    /\ effect # Null
    /\ lastOp = "isReadyForSubMesh"
    /\ ~lastCheck.returned

\* C36: the buildId of the material is advanced only by a pass that completes: a build()
\* that raises (structural error, uniqueness error, error batch) leaves buildId and the
\* generator as they were before the call.
C36_BuildIdOnlyOnSuccess ==
    [][(BuildStep /\ thrown' # "none")
       => buildId' = buildId /\ BuildIdGenerator' = BuildIdGenerator]_vars

\* a build() that raises before the stages are finalized leaves buildId as it was
C36_EarlyFailureKeepsBuildId ==
    [][(BuildStep /\ thrown' \in {"vertexOutputNode", "fragmentOutputNode", "unique"})
       => buildId' = buildId /\ BuildIdGenerator' = BuildIdGenerator]_vars

\* C37: the uniqueness error is raised only when two distinct blocks of one unique class
\* are both reachable from the output nodes: a block of the class that an earlier pass
\* reached and that was disconnected since (and not removed with removeBlock) does not
\* make a build fail whose graph reaches one block of the class.
C37_UniquenessOnlyWhenReachable ==
    [][(BuildStep /\ thrown' = "unique") => TwoUniqueBlocksReachable]_vars

\* the uniqueness error is raised only for two distinct blocks of one unique class, one
\* reachable from the output nodes and the other reachable or still tracked
C37_ClashWithTrackedBlock ==
    [][(BuildStep /\ thrown' = "unique")
       => \E a \in ReachableFromVertex \cup ReachableFromFragment :
              \E b \in ReachableFromVertex \cup ReachableFromFragment
                       \cup Range(attachedBlocks) :
                  a # b /\ KindIsUnique(heap[a].kind) /\ heap[a].kind = heap[b].kind]_vars

\* C38: after any sequence of build, removeBlock and parseSerializedObject calls
\* attachedBlocks holds no block twice, and right after a build pass that did not raise
\* every block reachable from the vertex or fragment output nodes through input links
\* and teleport links is in attachedBlocks.
C38_TrackedBlocks ==
    /\ NoDup(attachedBlocks)
    /\ (lastOp = "build" /\ thrown = "none")
       => (ReachableFromVertex \cup ReachableFromFragment) \subseteq Range(attachedBlocks)

\* a build tracked again a removed block and the entry point behind a teleport-out of a
\* material that holds the blocks of a merged source
C38_Witness ==
    /\ lastOp = "build" /\ thrown = "none"
    /\ builds = 2
    /\ parses = 1
    /\ Len(heap) > 5
    /\ KindIsTeleportOut(heap[3].kind)
    /\ attachedBlocks[Len(attachedBlocks)] \in {3, 4}
    /\ {3, 4} \subseteq ReachableFromVertex

\* the links of the graph form a cycle through two blocks or more
HasLongCycle(h) ==
    \E b \in 1..Len(h) : \E s \in Successors(h, b) \ {b} : b \in ReachableFrom(h, {s})

\* the number of steps ev in the log of the last parseSerializedObject()
ParseCount(ev) == Cardinality({i \in DOMAIN lastParse.log : lastParse.log[i].ev = ev})

\* the number of inputs of the blocks of the heap
RECURSIVE InputCount(_, _)
InputCount(h, b) == IF b > Len(h) THEN 0 ELSE Len(h[b].inputs) + InputCount(h, b + 1)

\* C39: the graph walks terminate: serialize() returns on every graph, cyclic or not,
\* with every block gathered once; on a graph whose links form no cycle longer than a
\* self-link the initialize walk and the reset walk of build() return; and
\* parseSerializedObject returns for every source, after at most one connection per
\* input and one _restoreConnections call per parsed block and per connection.
C39_WalksTerminate ==
    /\ lastOp = "serialize"
       => /\ thrown = "none"
          /\ NoDup(GatheredBlocks)
          /\ Range(GatheredBlocks) = ReachableFromVertex \cup ReachableFromFragment
    /\ (lastOp = "build" /\ ~HasLongCycle(heap)) => thrown # "RangeError"
    /\ lastOp = "parseSerializedObject"
       => /\ thrown = "none"
          /\ ParseCount("connectTo") <= InputCount(heap, 1)
          /\ ParseCount("_restoreConnections")
                 <= Len(idMap) + ParseCount("connectTo")

\* a graph whose two middle blocks read each other was serialized and the source merged:
\* the walks returned and the connections of the cycle were restored
C39_Witness ==
    /\ lastOp = "parseSerializedObject"
    /\ lastParse.merge
    /\ HasLongCycle(SubSeq(heap, 1, 5))
    /\ ParseCount("connectTo") >= 2
    /\ \E b \in 6..Len(heap) : \E s \in Successors(heap, b) \ {b} :
           b \in ReachableFrom(heap, {s})

\* the last check was a hot swap: the previous effect was kept
HotSwapped == lastCheck.hotSwapped

\* the last check installed the program, and the defines are processed
Installed ==
    /\ lastCheck.installed
    /\ effect = lastCheck.effectAfter
    /\ ~defines.isDirty

\* C40, the lights: the check of a hot swap with disposed lights returns false and
\* leaves the flag raised
C40_LightsCheck ==
    AfterCheck /\ lastCheck.result = "lightDisposed"
    => ~lastCheck.returned /\ lastCheck.hotSwapped /\ defines.areLightsDisposed

\* C40, the lights: the flag a hot swap left raised stays raised until a check installs
\* the program
C40_FlagStaysRaised ==
    [][HotSwapped /\ defines.areLightsDisposed /\ ~lastCheck'.installed
       => defines'.areLightsDisposed]_vars

\* C40, the checks after the swap: a check that follows the check that installed the
\* program, with no change of the capabilities between them, does not re-specialize
C40_StopsRespecializing ==
    /\ AfterCheck
    /\ prevCheck.hotSwapped = FALSE
    /\ prevCheck.installed
    /\ prevCheck.returned
    /\ lastCheck.since \subseteq {"frame"}
    => ~lastCheck.respliced

\* C40: when the capabilities stay as they are, checks keep being made and the engine
\* ends the compilation of the new program, then after finitely many checks the effect of
\* the submesh is the new program and the defines are not dirty: every hot swap leads to
\* a check that installs the program.
C40_Converges == HotSwapped ~> Installed

\* C40 for a material that is not frozen
C40_ConvergesUnlessFrozen == (HotSwapped /\ ~isFrozen) ~> Installed

\* a frozen material whose last check was a hot swap answered true
C40_FrozenSwap ==
    /\ AfterCheck
    /\ isFrozen
    /\ HotSwapped
    /\ lastCheck.returned
    /\ defines.isDirty

=============================================================================
